---- MODULE Spec2Model ----
(***************************************************************************)
(* Publication state engine of rspub-core: strategy dispatch, replay of    *)
(* the previously published state, reconciliation against the live         *)
(* resources, pagination into changelist / resourcelist pages, and the     *)
(* closing stages of a run.                                                *)
(***************************************************************************)
EXTENDS Integers, Sequences, FiniteSets, TLC

\* ------------------------------------------------------------------------
\* Bounds of the model
\* ------------------------------------------------------------------------
NumUris == 2
NumHashes == 2
MaxRuns == 3
MaxItemsBound == 2

\* ExecutorParameters: the default width of the ordinal in a page name
ZFILL_DOC_COUNT == 4

Uris == 1..NumUris
Hashes == 1..NumHashes

\* The unset value of an optional timestamp (Python None).
None == -1

\* ------------------------------------------------------------------------
\* Enumerations
\* ------------------------------------------------------------------------
Strategy == {"new_resourcelist", "new_changelist", "inc_changelist", "resourcedump", "changedump"}

\* An absent document (Python None / a file that does not exist).
NoDoc == [kind |-> "none"]

\* ------------------------------------------------------------------------
\* Sequence helpers
\* ------------------------------------------------------------------------
RECURSIVE Concat(_, _)
\* the resources of the pages called names, one page after the other
Concat(files, names) ==
  IF names = <<>> THEN <<>>
  ELSE files[Head(names)].resources \o Concat(files, Tail(names))

Range(s) == {s[i] : i \in DOMAIN s}

\* ------------------------------------------------------------------------
\* File names: "<capability>_<digits>.xml".  A page name is modelled by the
\* sequence of its decimal digits.
\* ------------------------------------------------------------------------
RECURSIVE Digits(_)
\* str(ordinal) for ordinal >= 0
Digits(n) == IF n < 10 THEN <<n>> ELSE Digits(n \div 10) \o <<n % 10>>

RECURSIVE Zeros(_)
Zeros(k) == IF k <= 0 THEN <<>> ELSE <<0>> \o Zeros(k - 1)

\* str.zfill(width)
zfill(s, width) == Zeros(width - Len(s)) \o s

format_ordinal(ordinal, zfill_doc_count) == zfill(Digits(ordinal), zfill_doc_count)

RECURSIVE ToInt(_)
\* int(digits)
ToInt(s) == IF s = <<>> THEN 0 ELSE 10 * ToInt(SubSeq(s, 1, Len(s) - 1)) + s[Len(s)]

RECURSIVE LexLess(_, _)
\* string order of "<cap>_<s>.xml" and "<cap>_<t>.xml": '.' sorts before every digit
LexLess(s, t) ==
  IF s = <<>> THEN t # <<>>
  ELSE IF t = <<>> THEN FALSE
  ELSE IF Head(s) # Head(t) THEN Head(s) < Head(t)
  ELSE LexLess(Tail(s), Tail(t))

RECURSIVE SortedNames(_)
\* sorted(glob("<cap>_*.xml"))
SortedNames(S) ==
  IF S = {} THEN <<>>
  ELSE LET least == CHOOSE x \in S : \A y \in S \ {x} : LexLess(x, y)
       IN <<least>> \o SortedNames(S \ {least})

\* ------------------------------------------------------------------------
\* State
\* ------------------------------------------------------------------------
VARIABLES
  resourcelists,   \* metadata dir: resourcelist_*.xml, page name -> document
  changelists,     \* metadata dir: changelist_*.xml, page name -> document
  indexes,         \* metadata dir: <capability>-index.xml, capability -> document
  capabilitylist,  \* metadata dir: capabilitylist.xml or NoDoc
  description,     \* .well-known/resourcesync or NoDoc
  para,            \* parameters of the current (or last) execute call
  exe,             \* working memory of the current (or last) executor
  pc,              \* stage of the run
  outcome,         \* how the last execute call ended
  clock,           \* w3c_now()
  runs,            \* number of execute calls so far
  pre,             \* the metadata dir when the current (or last) execute call began
  last             \* how the current execute call relates to the one before it

vars == <<resourcelists, changelists, indexes, capabilitylist, description,
          para, exe, pc, outcome, clock, runs, pre, last>>

store == <<resourcelists, changelists, indexes, capabilitylist, description>>

Snapshot ==
  [resourcelists |-> resourcelists, changelists |-> changelists, indexes |-> indexes,
   capabilitylist |-> capabilitylist, description |-> description]

EmptyFiles == [n \in {} |-> NoDoc]

\* ------------------------------------------------------------------------
\* Documents
\* ------------------------------------------------------------------------
\* resync.Resource as the executors use it
Resource(uri, md5, lastmod) ==
  [uri |-> uri, md5 |-> md5, lastmod |-> lastmod, change |-> "none", md_datetime |-> None]

\* a document without the link: link(rel) is None
NoLink == <<>>

\* ChangeList(): no resources, no md:from, no md:until, no links
NewChangeList ==
  [kind |-> "changelist", sitemapindex |-> FALSE, resources |-> <<>>, md_from |-> None,
   md_until |-> None, up |-> NoLink, index |-> NoLink]

\* ResourceList()
NewResourceList ==
  [kind |-> "resourcelist", sitemapindex |-> FALSE, resources |-> <<>>, md_at |-> None,
   md_completed |-> None, up |-> NoLink, index |-> NoLink]

\* CapabilityList()
NewCapabilityList ==
  [kind |-> "capabilitylist", sitemapindex |-> FALSE, resources |-> <<>>, up |-> NoLink]

\* SourceDescription()
NewSourceDescription == [kind |-> "description", resources |-> <<>>]

\* SitemapData(resource_count, ordinal, uri, path, capability_name); name is
\* the part of the path that tells the files of one capability apart
SitemapData(resource_count, ordinal, uri, name, capability_name, document_saved) ==
  [resource_count |-> resource_count, ordinal |-> ordinal, uri |-> uri, name |-> name,
   capability_name |-> capability_name, document_saved |-> document_saved]

\* ------------------------------------------------------------------------
\* dict keyed by uri, kept in insertion order (a sequence of resources)
\* ------------------------------------------------------------------------
UrisOf(d) == {d[i].uri : i \in DOMAIN d}

Lookup(d, uri) == d[CHOOSE i \in DOMAIN d : d[i].uri = uri]

\* dict.update({resource.uri: resource})
Upsert(d, resource) ==
  IF resource.uri \in UrisOf(d)
  THEN [i \in DOMAIN d |-> IF d[i].uri = resource.uri THEN resource ELSE d[i]]
  ELSE Append(d, resource)

\* del dict[uri]
Remove(d, uri) == SelectSeq(d, LAMBDA r : r.uri # uri)

\* ------------------------------------------------------------------------
\* StateReconstructor: ChangelistExecutor.update_previous_state
\* ------------------------------------------------------------------------
\* variant with a fault: updated entries are not replayed
ReplayChangeSkipsUpdated(d, resource) ==
  IF resource.change = "created"
  THEN Upsert(d, resource)
  ELSE IF resource.change = "deleted" /\ resource.uri \in UrisOf(d)
  THEN Remove(d, resource.uri)
  ELSE d

\* variant with a fault: deleted entries are not replayed
ReplayChangeSkipsDeleted(d, resource) ==
  IF resource.change = "created" \/ resource.change = "updated"
  THEN Upsert(d, resource)
  ELSE d

\* one entry of a changelist applied to the previous resources
ReplayChange(d, resource) ==
  IF resource.change = "created" \/ resource.change = "updated"
  THEN Upsert(d, resource)
  ELSE IF resource.change = "deleted" /\ resource.uri \in UrisOf(d)
  THEN Remove(d, resource.uri)
  ELSE d

RECURSIVE UpdateAll(_, _)
\* previous_resources.update(resourcelist.resources.resources)
UpdateAll(d, resources) ==
  IF resources = <<>> THEN d ELSE UpdateAll(Upsert(d, Head(resources)), Tail(resources))

RECURSIVE ReadResourcelists(_, _, _)
\* the loop over resourcelist_files
ReadResourcelists(acc, rls, names) ==
  IF names = <<>> THEN acc
  ELSE LET rl == rls[Head(names)]
       IN ReadResourcelists(
            [previous_resources |-> UpdateAll(acc.previous_resources, rl.resources),
             date_resourcelist_completed |->
               IF rl.md_completed # None THEN rl.md_completed ELSE rl.md_at],
            rls, Tail(names))

RECURSIVE ReplayChanges(_, _)
\* the loop over the entries of one changelist
ReplayChanges(d, resources) ==
  IF resources = <<>> THEN d
  ELSE ReplayChanges(ReplayChange(d, Head(resources)), Tail(resources))

RECURSIVE ReplayChangelists(_, _, _)
\* the loop over changelist_files
ReplayChangelists(d, cls, names) ==
  IF names = <<>> THEN d
  ELSE ReplayChangelists(ReplayChanges(d, cls[Head(names)].resources), cls, Tail(names))

update_previous_state(rls, cls) ==
  LET resourcelist_files == SortedNames(DOMAIN rls)
      changelist_files == SortedNames(DOMAIN cls)
      afterRl == ReadResourcelists([previous_resources |-> <<>>,
                                    date_resourcelist_completed |-> None],
                                   rls, resourcelist_files)
  IN [previous_resources |-> ReplayChangelists(afterRl.previous_resources, cls, changelist_files),
      date_resourcelist_completed |-> afterRl.date_resourcelist_completed,
      resourcelist_files |-> resourcelist_files,
      changelist_files |-> changelist_files]

\* ------------------------------------------------------------------------
\* Reconciler: ChangelistExecutor.changelist_generator, the classification
\* ------------------------------------------------------------------------
\* variant with a fault: the comparison looks at lastmod
IsUpdatedByLastmod(r, prev_r) == r.uri \in UrisOf(prev_r) /\ r.lastmod # Lookup(prev_r, r.uri).lastmod

IsUpdated(r, prev_r) == r.uri \in UrisOf(prev_r) /\ r.md5 # Lookup(prev_r, r.uri).md5

reconcile(prev_r, curr_r) ==
  [created |-> SelectSeq(curr_r, LAMBDA r : r.uri \notin UrisOf(prev_r)),
   updated |-> SelectSeq(curr_r, LAMBDA r : IsUpdated(r, prev_r)),
   deleted |-> SelectSeq(prev_r, LAMBDA r : r.uri \notin UrisOf(curr_r)),
   unchang |-> SelectSeq(curr_r, LAMBDA r : r.uri \in UrisOf(prev_r)
                                            /\ r.md5 = Lookup(prev_r, r.uri).md5)]

\* ------------------------------------------------------------------------
\* Ordinals: Executor.find_ordinal
\* ------------------------------------------------------------------------
\* variant with a fault: an empty directory counts as holding page 0
find_ordinalEmptyIsZero(files) ==
  LET rs_files == SortedNames(DOMAIN files)
  IN IF Len(rs_files) = 0 THEN 0 ELSE ToInt(rs_files[Len(rs_files)])

find_ordinal(files) ==
  LET rs_files == SortedNames(DOMAIN files)
  IN IF Len(rs_files) = 0 THEN -1 ELSE ToInt(rs_files[Len(rs_files)])

\* ------------------------------------------------------------------------
\* DocumentPaginator: ChangelistExecutor.changelist_generator, the filling
\* ------------------------------------------------------------------------
\* variant with a fault: the updated resources are visited twice
all_changesUpdatedTwice(changes) ==
  << <<"created", changes.created>>, <<"updated", changes.updated>>,
     <<"updated", changes.updated>>, <<"deleted", changes.deleted>> >>

\* variant with a fault: the deleted resources come first
all_changesDeletedFirst(changes) ==
  << <<"deleted", changes.deleted>>, <<"created", changes.created>>, <<"updated", changes.updated>> >>

\* all_changes.items(): the groups in the order the loop visits them
all_changes(changes) ==
  << <<"created", changes.created>>, <<"updated", changes.updated>>, <<"deleted", changes.deleted>> >>

RECURSIVE Flatten(_)
\* the (kind, resource) pairs in the order the nested loops visit them
Flatten(groups) ==
  IF groups = <<>> THEN <<>>
  ELSE [i \in 1..Len(Head(groups)[2]) |-> <<Head(groups)[1], Head(groups)[2][i]>>]
       \o Flatten(Tail(groups))

\* variant with a fault: a resumed changelist loses the entries it held
PaginatorStartDropsEntries(changelist, ordinal, max_items_in_list) ==
  IF changelist # NoDoc /\ Len(changelist.resources) > 0
  THEN IF Len(changelist.resources) >= max_items_in_list
       THEN [changelist |-> NoDoc, ordinal |-> ordinal, resource_count |-> 0, out |-> <<>>]
       ELSE [changelist |-> [changelist EXCEPT !.resources = <<>>], ordinal |-> ordinal - 1,
             resource_count |-> Len(changelist.resources), out |-> <<>>]
  ELSE [changelist |-> changelist, ordinal |-> ordinal, resource_count |-> 0, out |-> <<>>]

\* variant with a fault: the entries of a resumed changelist are not counted
PaginatorStartCountsFromZero(changelist, ordinal, max_items_in_list) ==
  IF changelist # NoDoc /\ Len(changelist.resources) > 0
  THEN IF Len(changelist.resources) >= max_items_in_list
       THEN [changelist |-> NoDoc, ordinal |-> ordinal, resource_count |-> 0, out |-> <<>>]
       ELSE [changelist |-> changelist, ordinal |-> ordinal - 1, resource_count |-> 0,
             out |-> <<>>]
  ELSE [changelist |-> changelist, ordinal |-> ordinal, resource_count |-> 0, out |-> <<>>]

\* variant with a fault: the ordinal is not stepped back for a resumed changelist
PaginatorStartKeepsOrdinal(changelist, ordinal, max_items_in_list) ==
  IF changelist # NoDoc /\ Len(changelist.resources) > 0
  THEN IF Len(changelist.resources) >= max_items_in_list
       THEN [changelist |-> NoDoc, ordinal |-> ordinal, resource_count |-> 0, out |-> <<>>]
       ELSE [changelist |-> changelist, ordinal |-> ordinal,
             resource_count |-> Len(changelist.resources), out |-> <<>>]
  ELSE [changelist |-> changelist, ordinal |-> ordinal, resource_count |-> 0, out |-> <<>>]

\* the state of the generator before the loop (lines 108-117)
PaginatorStart(changelist, ordinal, max_items_in_list) ==
  IF changelist # NoDoc /\ Len(changelist.resources) > 0
  THEN IF Len(changelist.resources) >= max_items_in_list
       THEN [changelist |-> NoDoc, ordinal |-> ordinal, resource_count |-> 0, out |-> <<>>]
       ELSE [changelist |-> changelist, ordinal |-> ordinal - 1,
             resource_count |-> Len(changelist.resources), out |-> <<>>]
  ELSE [changelist |-> changelist, ordinal |-> ordinal, resource_count |-> 0, out |-> <<>>]

\* variant with a fault: a page takes one resource too many
IsFullOneLate(resource_count, max_items_in_list) == resource_count % (max_items_in_list + 1) = 0

\* the condition under which the current changelist is yielded (line 131)
IsFull(resource_count, max_items_in_list) == resource_count % max_items_in_list = 0

\* variant with a fault: the resource is stamped with the time the changelist
\* begins
PaginatorStepStampsFrom(acc, kv, max_items_in_list, date_changelist_from, date_start_processing) ==
  LET opened == IF acc.changelist = NoDoc
                THEN [NewChangeList EXCEPT !.md_from = date_changelist_from]
                ELSE acc.changelist
      resource == [kv[2] EXCEPT !.change = kv[1], !.md_datetime = date_changelist_from]
      changelist == [opened EXCEPT !.resources = Append(@, resource)]
      resource_count == acc.resource_count + 1
  IN IF IsFull(resource_count, max_items_in_list)
     THEN [changelist |-> NoDoc, ordinal |-> acc.ordinal + 1, resource_count |-> resource_count,
           out |-> Append(acc.out, [ordinal |-> acc.ordinal + 1, sitemap |-> changelist])]
     ELSE [changelist |-> changelist, ordinal |-> acc.ordinal, resource_count |-> resource_count,
           out |-> acc.out]

\* one pass of the loop body (lines 121-135)
PaginatorStep(acc, kv, max_items_in_list, date_changelist_from, date_start_processing) ==
  LET opened == IF acc.changelist = NoDoc
                THEN [NewChangeList EXCEPT !.md_from = date_changelist_from]
                ELSE acc.changelist
      resource == [kv[2] EXCEPT !.change = kv[1], !.md_datetime = date_start_processing]
      changelist == [opened EXCEPT !.resources = Append(@, resource)]
      resource_count == acc.resource_count + 1
  IN IF IsFull(resource_count, max_items_in_list)
     THEN [changelist |-> NoDoc, ordinal |-> acc.ordinal + 1, resource_count |-> resource_count,
           out |-> Append(acc.out, [ordinal |-> acc.ordinal + 1, sitemap |-> changelist])]
     ELSE [changelist |-> changelist, ordinal |-> acc.ordinal, resource_count |-> resource_count,
           out |-> acc.out]

RECURSIVE PaginatorLoop(_, _, _, _, _)
\* the loop over all changes (lines 119-135)
PaginatorLoop(acc, kvs, max_items_in_list, date_changelist_from, date_start_processing) ==
  IF kvs = <<>> THEN acc
  ELSE PaginatorLoop(PaginatorStep(acc, Head(kvs), max_items_in_list, date_changelist_from,
                                   date_start_processing),
                     Tail(kvs), max_items_in_list, date_changelist_from, date_start_processing)

\* variant with a fault: the changelist left open by the loop is never yielded
YieldsLastNever(changelist, tot_changes) == FALSE

\* variant with a fault: the last changelist is yielded without looking at tot_changes
YieldsLastAnyway(changelist, tot_changes) ==
  changelist # NoDoc /\ Len(changelist.resources) > 0

\* the condition under which the current and last changelist is yielded (line 138)
YieldsLast(changelist, tot_changes) ==
  changelist # NoDoc /\ Len(changelist.resources) > 0 /\ tot_changes > 0

\* the documents the generator yields, in order, each with its ordinal
changelist_generator(changes, changelist, ordinal, max_items_in_list, date_changelist_from, date_start_processing) ==
  LET tot_changes == Len(changes.created) + Len(changes.updated) + Len(changes.deleted)
      after == PaginatorLoop(PaginatorStart(changelist, ordinal, max_items_in_list),
                             Flatten(all_changes(changes)),
                             max_items_in_list, date_changelist_from, date_start_processing)
  IN IF YieldsLast(after.changelist, tot_changes)
     THEN Append(after.out, [ordinal |-> after.ordinal + 1, sitemap |-> after.changelist])
     ELSE after.out

\* ------------------------------------------------------------------------
\* Files of the metadata directory
\* ------------------------------------------------------------------------
\* open(path, "w").write(...): create or overwrite one file
Put(files, name, doc) ==
  [n \in DOMAIN files \cup {name} |-> IF n = name THEN doc ELSE files[n]]

\* os.remove(path)
Delete(files, name) == [n \in DOMAIN files \ {name} |-> files[n]]

\* the rest of the file name of an index, <capability>-index.xml: no digits
INDEX == <<-1>>

\* uri_from_path: the url prefix followed by the path below the resource
\* directory, here the capability and the rest of the file name
uri_from_path(url_prefix, capability_name, name) == <<url_prefix, capability_name, name>>

\* Executor.current_capabilitylist_url
current_capabilitylist_url(url_prefix) == uri_from_path(url_prefix, "capabilitylist", <<>>)

\* Executor.current_description_url
current_description_url(url_prefix) == uri_from_path(url_prefix, "description", <<>>)

\* variant with a fault: every document points up to the capability list
current_rel_up_forAlwaysCapabilitylist(sitemap, url_prefix) ==
  current_capabilitylist_url(url_prefix)

\* Executor.current_rel_up_for
current_rel_up_for(sitemap, url_prefix) ==
  IF sitemap.kind = "capabilitylist"
  THEN current_description_url(url_prefix)
  ELSE current_capabilitylist_url(url_prefix)

\* Executor.finish_sitemap: the document as written, the rest of its file
\* name and its descriptor
finish_sitemap(ordinal, sitemap, zfill_doc_count, is_saving_sitemaps, url_prefix) ==
  LET name == IF sitemap.sitemapindex THEN INDEX
              ELSE IF ordinal >= 0 THEN format_ordinal(ordinal, zfill_doc_count)
              ELSE <<>>
      linked == [sitemap EXCEPT !.up = current_rel_up_for(sitemap, url_prefix)]
  IN [name |-> name, sitemap |-> linked,
      sitemap_data |-> SitemapData(Len(sitemap.resources), ordinal,
                                   uri_from_path(url_prefix, sitemap.kind, name), name,
                                   sitemap.kind, is_saving_sitemaps)]

RECURSIVE WritePages(_, _, _)
\* the pages of one capability after the yielded documents went through finish_sitemap
WritePages(files, yielded, p) ==
  IF yielded = <<>> THEN files
  ELSE LET y == Head(yielded)
           fin == finish_sitemap(y.ordinal, y.sitemap, p.zfill_doc_count,
                                 p.is_saving_sitemaps, p.url_prefix)
       IN WritePages(IF p.is_saving_sitemaps THEN Put(files, fin.name, fin.sitemap) ELSE files,
                     Tail(yielded), p)

\* the completed_document events of the yielded documents: the document and
\* its descriptor
CompletedOf(yielded, p) ==
  [i \in DOMAIN yielded |->
     LET fin == finish_sitemap(yielded[i].ordinal, yielded[i].sitemap, p.zfill_doc_count,
                               p.is_saving_sitemaps, p.url_prefix)
     IN [document |-> fin.sitemap, sitemap_data |-> fin.sitemap_data]]

\* the descriptors of the yielded documents
DataOf(yielded, p) == [i \in DOMAIN yielded |-> CompletedOf(yielded, p)[i].sitemap_data]

\* ------------------------------------------------------------------------
\* Live resources: what Executor.resource_generator yields for the file
\* names given to execute, in walk order (ascending uri).  f gives the md5
\* of every file, or Absent.  Files with an odd uri are touched before every
\* run (their lastmod is the time of the run), the others keep lastmod 0.
\* ------------------------------------------------------------------------
Absent == 0

resource_generator(f, now) ==
  LET present == SelectSeq([i \in 1..NumUris |-> i], LAMBDA u : f[u] # Absent)
  IN [i \in DOMAIN present |->
        Resource(present[i], f[present[i]], IF present[i] % 2 = 1 THEN now ELSE 0)]

Files == [Uris -> Hashes \cup {Absent}]

\* the uris and content hashes of a sequence of resources
Content(resources) == {<<resources[i].uri, resources[i].md5>> : i \in DOMAIN resources}

\* ------------------------------------------------------------------------
\* Full snapshot: ResourceListExecutor
\* ------------------------------------------------------------------------
\* one resource added to the resourcelist in progress
ResourcelistStep(acc, resource, max_items_in_list, now) ==
  LET opened == IF acc.resourcelist = NoDoc
                THEN [NewResourceList EXCEPT !.md_at = now]
                ELSE acc.resourcelist
      resourcelist == [opened EXCEPT !.resources = Append(@, resource)]
      resource_count == acc.resource_count + 1
  IN IF resource_count % max_items_in_list = 0
     THEN [resourcelist |-> NoDoc, ordinal |-> acc.ordinal + 1,
           resource_count |-> resource_count,
           out |-> Append(acc.out, [ordinal |-> acc.ordinal + 1,
                                    sitemap |-> [resourcelist EXCEPT !.md_completed = now]])]
     ELSE [resourcelist |-> resourcelist, ordinal |-> acc.ordinal,
           resource_count |-> resource_count, out |-> acc.out]

RECURSIVE ResourcelistLoop(_, _, _, _)
\* the loop over the live resources
ResourcelistLoop(acc, curr_r, max_items_in_list, now) ==
  IF curr_r = <<>> THEN acc
  ELSE ResourcelistLoop(ResourcelistStep(acc, Head(curr_r), max_items_in_list, now),
                        Tail(curr_r), max_items_in_list, now)

\* the resourcelist pages the full snapshot yields
resourcelist_generator(curr_r, ordinal, max_items_in_list, now) ==
  LET after == ResourcelistLoop([resourcelist |-> NoDoc, ordinal |-> ordinal,
                                 resource_count |-> 0, out |-> <<>>],
                                curr_r, max_items_in_list, now)
  IN IF after.resourcelist # NoDoc
     THEN Append(after.out, [ordinal |-> after.ordinal + 1,
                             sitemap |-> [after.resourcelist EXCEPT !.md_completed = now]])
     ELSE after.out

\* ------------------------------------------------------------------------
\* Initial state: an empty metadata directory, nothing executed yet
\* ------------------------------------------------------------------------
NoChanges == [created |-> <<>>, updated |-> <<>>, deleted |-> <<>>, unchang |-> <<>>]

InitExe ==
  [executor |-> "none", date_start_processing |-> None, date_end_processing |-> None,
   previous_resources |-> <<>>, date_resourcelist_completed |-> None,
   date_changelist_from |-> None, resourcelist_files |-> <<>>, changelist_files |-> <<>>,
   changes |-> NoChanges, found |-> FALSE, ordinal |-> -1, changelist |-> NoDoc,
   yielded |-> <<>>, sitemap_data_iter |-> <<>>, stages |-> <<>>, completed |-> <<>>,
   events |-> <<>>]

InitPara(width) ==
  [strategy |-> "new_resourcelist", start_new |-> FALSE, is_saving_sitemaps |-> TRUE,
   max_items_in_list |-> 1, zfill_doc_count |-> width, url_prefix |-> 1,
   filenames |-> <<>>]

NoRun == [same |-> FALSE, is_saving_sitemaps |-> FALSE, outcome |-> "none"]

Init ==
  /\ resourcelists = EmptyFiles
  /\ changelists = EmptyFiles
  /\ indexes = EmptyFiles
  /\ capabilitylist = NoDoc
  /\ description = NoDoc
  /\ para = InitPara(ZFILL_DOC_COUNT)
  /\ exe = InitExe
  /\ pc = "idle"
  /\ outcome = "none"
  /\ clock = 0
  /\ runs = 0
  /\ pre = Snapshot
  /\ last = NoRun

\* ------------------------------------------------------------------------
\* StrategyDispatcher: ResourceSync.execute
\* ------------------------------------------------------------------------
\* variant with a fault: a strategy without executor runs the full snapshot
ExecutorForDefaultsToResourcelist(valid_strategy, start_new) ==
  IF valid_strategy = "new_resourcelist" \/ start_new THEN "resourcelist"
  ELSE IF valid_strategy = "new_changelist" THEN "new_changelist"
  ELSE IF valid_strategy = "inc_changelist" THEN "inc_changelist"
  ELSE "resourcelist"

\* variant with a fault: start_new is ignored
ExecutorForIgnoresStartNew(valid_strategy, start_new) ==
  IF valid_strategy = "new_resourcelist" THEN "resourcelist"
  ELSE IF valid_strategy = "new_changelist" THEN "new_changelist"
  ELSE IF valid_strategy = "inc_changelist" THEN "inc_changelist"
  ELSE "none"

\* the executor the if / elif chain constructs ("none": no branch taken)
ExecutorFor(valid_strategy, start_new) ==
  IF valid_strategy = "new_resourcelist" \/ start_new THEN "resourcelist"
  ELSE IF valid_strategy = "new_changelist" THEN "new_changelist"
  ELSE IF valid_strategy = "inc_changelist" THEN "inc_changelist"
  ELSE "none"

\* ResourceSync.execute up to the first stage of Executor.execute
Execute(strategy, start_new_arg, is_saving_sitemaps, max_items_in_list, url_prefix, files) ==
  /\ pc = "idle"
  /\ LET resourcelist_files == SortedNames(DOMAIN resourcelists)
         start_new == start_new_arg \/ Len(resourcelist_files) = 0
         executor == ExecutorFor(strategy, start_new)
         filenames == resource_generator(files, clock + 1)
     IN /\ para' = [strategy |-> strategy, start_new |-> start_new,
                    is_saving_sitemaps |-> is_saving_sitemaps,
                    max_items_in_list |-> max_items_in_list,
                    zfill_doc_count |-> para.zfill_doc_count, url_prefix |-> url_prefix,
                    filenames |-> filenames]
        /\ last' = [same |-> runs > 0 /\ strategy = para.strategy
                                      /\ Content(filenames) = Content(para.filenames),
                    is_saving_sitemaps |-> para.is_saving_sitemaps, outcome |-> outcome]
        /\ runs' = runs + 1
        /\ pre' = Snapshot
        /\ IF executor # "none"
           THEN /\ clock' = clock + 1
                /\ exe' = [InitExe EXCEPT !.executor = executor,
                                          !.date_start_processing = clock + 1,
                                          !.stages = <<"execution_start">>]
                /\ pc' = "prepare"
                /\ outcome' = "running"
           ELSE \* raise NotImplementedError
                /\ clock' = clock
                /\ exe' = InitExe
                /\ pc' = "idle"
                /\ outcome' = "not_implemented"
  /\ UNCHANGED store

\* ------------------------------------------------------------------------
\* Executor.execute, stage by stage
\* ------------------------------------------------------------------------
\* ResourceListExecutor.prepare_metadata_dir: a saving full snapshot starts
\* by clearing the metadata directory
CallsClearMetadataDir == exe.executor = "resourcelist" /\ para.is_saving_sitemaps

\* the metadata directory without any document
EmptySnapshot ==
  [resourcelists |-> EmptyFiles, changelists |-> EmptyFiles, indexes |-> EmptyFiles,
   capabilitylist |-> NoDoc, description |-> NoDoc]

\* variant with a fault: the files are removed before the observers are asked
clear_metadata_dirRemovesFirst(ok, files) == [raised |-> ~ok, files |-> EmptySnapshot]

\* Executor.clear_metadata_dir: ok is the answer of observers_confirm; the
\* files afterwards and whether ObserverInterruptException was raised
clear_metadata_dir(ok, files) ==
  IF ~ok THEN [raised |-> TRUE, files |-> files]
  ELSE [raised |-> FALSE, files |-> EmptySnapshot]

\* variant with a fault: create_index is left out
StageAfterSkipsIndex(stage) ==
  CASE stage = "prepare" -> "generate"
    [] stage = "generate" -> "post"
    [] stage = "post" -> "caplist"
    [] stage = "index" -> "caplist"
    [] stage = "caplist" -> "desc"
    [] stage = "desc" -> "idle"

\* the order of the calls in Executor.execute
StageAfter(stage) ==
  CASE stage = "prepare" -> "generate"
    [] stage = "generate" -> "post"
    [] stage = "post" -> "index"
    [] stage = "index" -> "caplist"
    [] stage = "caplist" -> "desc"
    [] stage = "desc" -> "idle"

\* prepare_metadata_dir, which in a saving full snapshot is clear_metadata_dir
PrepareMetadataDir(ok) ==
  /\ pc = "prepare"
  /\ IF CallsClearMetadataDir
     THEN LET cleared == clear_metadata_dir(ok, Snapshot)
          IN /\ resourcelists' = cleared.files.resourcelists
             /\ changelists' = cleared.files.changelists
             /\ indexes' = cleared.files.indexes
             /\ capabilitylist' = cleared.files.capabilitylist
             /\ description' = cleared.files.description
             /\ IF cleared.raised
                THEN \* ObserverInterruptException leaves Executor.execute
                     pc' = "idle" /\ outcome' = "interrupted"
                ELSE pc' = StageAfter(pc) /\ outcome' = outcome
     ELSE /\ ok
          /\ UNCHANGED store
          /\ pc' = StageAfter(pc)
          /\ outcome' = outcome
  /\ exe' = [exe EXCEPT !.stages = Append(@, "prepare_metadata_dir")]
  /\ UNCHANGED <<para, clock, runs, pre, last>>

\* ResourceListExecutor.generate_rs_documents
GenerateResourcelists ==
  /\ pc = "generate"
  /\ exe.executor = "resourcelist"
  /\ LET curr_r == para.filenames
         ordinal == find_ordinal(resourcelists)
         yielded == resourcelist_generator(curr_r, ordinal, para.max_items_in_list,
                                           exe.date_start_processing)
     IN /\ resourcelists' = WritePages(resourcelists, yielded, para)
        /\ exe' = [exe EXCEPT !.changes = [NoChanges EXCEPT !.created = curr_r],
                              !.found = TRUE,
                              !.ordinal = ordinal,
                              !.yielded = yielded,
                              !.sitemap_data_iter = DataOf(yielded, para),
                              !.stages = Append(@, "generate_rs_documents"),
                              !.completed = @ \o CompletedOf(yielded, para)]
  /\ pc' = StageAfter(pc)
  /\ UNCHANGED <<changelists, indexes, capabilitylist, description, para, outcome, clock,
                 runs, pre, last>>

\* variant with a fault: every new changelist starts at the resourcelist
date_changelist_fromAlwaysCompleted(executor, changelist_files, date_resourcelist_completed, date_start_processing) ==
  date_resourcelist_completed

\* self.date_changelist_from as the two generate_rs_documents set it
date_changelist_from(executor, changelist_files, date_resourcelist_completed, date_start_processing) ==
  IF executor = "inc_changelist" THEN date_resourcelist_completed
  ELSE IF Len(changelist_files) = 0 THEN date_resourcelist_completed
  ELSE date_start_processing

\* NewChangelistExecutor.generate_rs_documents and
\* IncrementalChangelistExecutor.generate_rs_documents
\* variant with a fault: found_changes is sent when the documents are done
ChangelistEventsFoundLast(filenames, changes, yielded) ==
  [i \in DOMAIN filenames |->
     [event |-> "created_resource", kwargs |-> <<filenames[i].uri>>]]
  \o [i \in DOMAIN yielded |->
        [event |-> "completed_document", kwargs |-> <<yielded[i].ordinal>>]]
  \o << [event |-> "found_changes",
         kwargs |-> <<Len(changes.created), Len(changes.updated), Len(changes.deleted),
                      Len(changes.unchang)>>] >>

\* the events the generator of changelist_generator sends to the observers,
\* in order: created_resource for every resource while curr_r is built
\* (line 94), found_changes with the four counts (line 104), and
\* completed_document for every changelist handed to finish_sitemap
ChangelistEvents(filenames, changes, yielded) ==
  [i \in DOMAIN filenames |->
     [event |-> "created_resource", kwargs |-> <<filenames[i].uri>>]]
  \o << [event |-> "found_changes",
         kwargs |-> <<Len(changes.created), Len(changes.updated), Len(changes.deleted),
                      Len(changes.unchang)>>] >>
  \o [i \in DOMAIN yielded |->
        [event |-> "completed_document", kwargs |-> <<yielded[i].ordinal>>]]

GenerateChangelists ==
  /\ pc = "generate"
  /\ exe.executor \in {"new_changelist", "inc_changelist"}
  /\ LET state == update_previous_state(resourcelists, changelists)
         changelist_from ==
           date_changelist_from(exe.executor, state.changelist_files,
                                state.date_resourcelist_completed, exe.date_start_processing)
         changelist ==
           IF exe.executor = "inc_changelist" /\ Len(state.changelist_files) > 0
           THEN changelists[state.changelist_files[Len(state.changelist_files)]]
           ELSE NoDoc
         changes == reconcile(state.previous_resources, para.filenames)
         ordinal == find_ordinal(changelists)
         yielded == changelist_generator(changes, changelist, ordinal, para.max_items_in_list,
                                         changelist_from, exe.date_start_processing)
     IN /\ changelists' = WritePages(changelists, yielded, para)
        /\ exe' = [exe EXCEPT !.previous_resources = state.previous_resources,
                              !.date_resourcelist_completed = state.date_resourcelist_completed,
                              !.date_changelist_from = changelist_from,
                              !.resourcelist_files = state.resourcelist_files,
                              !.changelist_files = state.changelist_files,
                              !.changes = changes,
                              !.found = TRUE,
                              !.ordinal = ordinal,
                              !.changelist = changelist,
                              !.yielded = yielded,
                              !.sitemap_data_iter = DataOf(yielded, para),
                              !.stages = Append(@, "generate_rs_documents"),
                              !.completed = @ \o CompletedOf(yielded, para),
                              !.events = ChangelistEvents(para.filenames, changes, yielded)]
  /\ pc' = StageAfter(pc)
  /\ UNCHANGED <<resourcelists, indexes, capabilitylist, description, para, outcome, clock,
                 runs, pre, last>>

\* variant with a fault: md:until is set whether or not it was set before
CloseChangelistAgain(changelist, date_start_processing) ==
  [changelist EXCEPT !.md_until = date_start_processing]

\* one older changelist in post_process_documents: closed if it is open
CloseChangelist(changelist, date_start_processing) ==
  IF changelist.md_until = None
  THEN [changelist EXCEPT !.md_until = date_start_processing]
  ELSE changelist

\* variant with a fault: the older changelists are closed at the completion
\* time of the resourcelist
PostProcessDocumentsAtBaseline ==
  /\ pc = "post"
  /\ IF exe.executor = "new_changelist" /\ Len(exe.sitemap_data_iter) > 0
        /\ para.is_saving_sitemaps
     THEN changelists' =
            [n \in DOMAIN changelists |->
               IF n \in Range(exe.changelist_files)
               THEN CloseChangelist(changelists[n], exe.date_resourcelist_completed)
               ELSE changelists[n]]
     ELSE changelists' = changelists
  /\ exe' = [exe EXCEPT !.date_end_processing = clock,
                        !.stages = Append(@, "post_process_documents")]
  /\ pc' = StageAfter(pc)
  /\ UNCHANGED <<resourcelists, indexes, capabilitylist, description, para, outcome, clock,
                 runs, pre, last>>

\* variant with a fault: the changelists of the run are closed with the older ones
PostProcessDocumentsClosesAll ==
  /\ pc = "post"
  /\ IF exe.executor = "new_changelist" /\ Len(exe.sitemap_data_iter) > 0
        /\ para.is_saving_sitemaps
     THEN changelists' =
            [n \in DOMAIN changelists |->
               CloseChangelist(changelists[n], exe.date_start_processing)]
     ELSE changelists' = changelists
  /\ exe' = [exe EXCEPT !.date_end_processing = clock,
                        !.stages = Append(@, "post_process_documents")]
  /\ pc' = StageAfter(pc)
  /\ UNCHANGED <<resourcelists, indexes, capabilitylist, description, para, outcome, clock,
                 runs, pre, last>>

\* variant with a fault: the older changelists are closed whether or not the
\* run made a changelist
PostProcessDocumentsAlways ==
  /\ pc = "post"
  /\ IF exe.executor = "new_changelist" /\ para.is_saving_sitemaps
     THEN changelists' =
            [n \in DOMAIN changelists |->
               IF n \in Range(exe.changelist_files)
               THEN CloseChangelist(changelists[n], exe.date_start_processing)
               ELSE changelists[n]]
     ELSE changelists' = changelists
  /\ exe' = [exe EXCEPT !.date_end_processing = clock,
                        !.stages = Append(@, "post_process_documents")]
  /\ pc' = StageAfter(pc)
  /\ UNCHANGED <<resourcelists, indexes, capabilitylist, description, para, outcome, clock,
                 runs, pre, last>>

\* NewChangelistExecutor.post_process_documents; the other executors pass
PostProcessDocuments ==
  /\ pc = "post"
  /\ IF exe.executor = "new_changelist" /\ Len(exe.sitemap_data_iter) > 0
        /\ para.is_saving_sitemaps
     THEN changelists' =
            [n \in DOMAIN changelists |->
               IF n \in Range(exe.changelist_files)
               THEN CloseChangelist(changelists[n], exe.date_start_processing)
               ELSE changelists[n]]
     ELSE changelists' = changelists
  /\ exe' = [exe EXCEPT !.date_end_processing = clock,
                        !.stages = Append(@, "post_process_documents")]
  /\ pc' = StageAfter(pc)
  /\ UNCHANGED <<resourcelists, indexes, capabilitylist, description, para, outcome, clock,
                 runs, pre, last>>

\* variant with a fault: the entries of the index carry no md:until
ChangelistIndexOpenEntries(cls, date_resourcelist_completed, url_prefix) ==
  LET changelist_files == SortedNames(DOMAIN cls)
  IN [NewChangeList EXCEPT
        !.sitemapindex = TRUE,
        !.md_from = date_resourcelist_completed,
        !.resources = [i \in DOMAIN changelist_files |->
                         [uri |-> uri_from_path(url_prefix, "changelist", changelist_files[i]),
                          md_from |-> cls[changelist_files[i]].md_from,
                          md_until |-> None]]]

\* the changelist index create_index builds from the changelists on disk
ChangelistIndex(cls, date_resourcelist_completed, url_prefix) ==
  LET changelist_files == SortedNames(DOMAIN cls)
  IN [NewChangeList EXCEPT
        !.sitemapindex = TRUE,
        !.md_from = date_resourcelist_completed,
        !.resources = [i \in DOMAIN changelist_files |->
                         [uri |-> uri_from_path(url_prefix, "changelist", changelist_files[i]),
                          md_from |-> cls[changelist_files[i]].md_from,
                          md_until |-> cls[changelist_files[i]].md_until]]]

\* the event finish_sitemap(-1, sitemap) sends to the observers
Completed(sitemap, p) ==
  LET fin == finish_sitemap(-1, sitemap, p.zfill_doc_count, p.is_saving_sitemaps, p.url_prefix)
  IN [document |-> fin.sitemap, sitemap_data |-> fin.sitemap_data]

\* variant with a fault: every changelist is linked to the index of this run
CreateChangelistIndexRelinks ==
  /\ pc = "index"
  /\ exe.executor \in {"new_changelist", "inc_changelist"}
  /\ LET removed == IF "changelist" \in DOMAIN indexes THEN Delete(indexes, "changelist")
                    ELSE indexes
         changelist_index_uri == uri_from_path(para.url_prefix, "changelist", INDEX)
         event == Completed(ChangelistIndex(changelists, exe.date_resourcelist_completed,
                                            para.url_prefix), para)
     IN IF Cardinality(DOMAIN changelists) > 1
        THEN /\ changelists' =
                  [n \in DOMAIN changelists |->
                     IF para.is_saving_sitemaps
                     THEN [changelists[n] EXCEPT !.index = changelist_index_uri]
                     ELSE changelists[n]]
             /\ indexes' = IF para.is_saving_sitemaps
                           THEN Put(removed, "changelist", event.document)
                           ELSE removed
             /\ exe' = [exe EXCEPT !.stages = Append(@, "create_index"),
                                   !.completed = Append(@, event)]
        ELSE /\ changelists' = changelists
             /\ indexes' = removed
             /\ exe' = [exe EXCEPT !.stages = Append(@, "create_index")]
  /\ pc' = StageAfter(pc)
  /\ UNCHANGED <<resourcelists, capabilitylist, description, para, outcome, clock,
                 runs, pre, last>>

\* ChangelistExecutor.create_index
CreateChangelistIndex ==
  /\ pc = "index"
  /\ exe.executor \in {"new_changelist", "inc_changelist"}
  /\ LET removed == IF "changelist" \in DOMAIN indexes THEN Delete(indexes, "changelist")
                    ELSE indexes
         changelist_index_uri == uri_from_path(para.url_prefix, "changelist", INDEX)
         event == Completed(ChangelistIndex(changelists, exe.date_resourcelist_completed,
                                            para.url_prefix), para)
     IN IF Cardinality(DOMAIN changelists) > 1
        THEN /\ changelists' =
                  [n \in DOMAIN changelists |->
                     IF para.is_saving_sitemaps /\ changelists[n].index = NoLink
                     THEN [changelists[n] EXCEPT !.index = changelist_index_uri]
                     ELSE changelists[n]]
             /\ indexes' = IF para.is_saving_sitemaps
                           THEN Put(removed, "changelist", event.document)
                           ELSE removed
             /\ exe' = [exe EXCEPT !.stages = Append(@, "create_index"),
                                   !.completed = Append(@, event)]
        ELSE /\ changelists' = changelists
             /\ indexes' = removed
             /\ exe' = [exe EXCEPT !.stages = Append(@, "create_index")]
  /\ pc' = StageAfter(pc)
  /\ UNCHANGED <<resourcelists, capabilitylist, description, para, outcome, clock,
                 runs, pre, last>>

\* the resourcelist index of the pages of this run
ResourcelistIndex(sitemap_data_iter, date_start_processing, date_end_processing) ==
  [NewResourceList EXCEPT
     !.sitemapindex = TRUE,
     !.md_at = date_start_processing,
     !.md_completed = date_end_processing,
     !.resources = [i \in DOMAIN sitemap_data_iter |-> [uri |-> sitemap_data_iter[i].uri]]]

\* ResourceListExecutor.create_index
CreateResourcelistIndex ==
  /\ pc = "index"
  /\ exe.executor = "resourcelist"
  /\ LET resourcelist_index_uri == uri_from_path(para.url_prefix, "resourcelist", INDEX)
         event == Completed(ResourcelistIndex(exe.sitemap_data_iter, exe.date_start_processing,
                                              exe.date_end_processing), para)
     IN IF Len(exe.sitemap_data_iter) > 1
        THEN /\ resourcelists' =
                  [n \in DOMAIN resourcelists |->
                     IF \E i \in DOMAIN exe.sitemap_data_iter :
                          /\ exe.sitemap_data_iter[i].name = n
                          /\ exe.sitemap_data_iter[i].document_saved
                     THEN [resourcelists[n] EXCEPT !.index = resourcelist_index_uri]
                     ELSE resourcelists[n]]
             /\ indexes' = IF para.is_saving_sitemaps
                           THEN Put(indexes, "resourcelist", event.document)
                           ELSE indexes
             /\ exe' = [exe EXCEPT !.stages = Append(@, "create_index"),
                                   !.completed = Append(@, event)]
        ELSE /\ UNCHANGED <<resourcelists, indexes>>
             /\ exe' = [exe EXCEPT !.stages = Append(@, "create_index")]
  /\ pc' = StageAfter(pc)
  /\ UNCHANGED <<changelists, capabilitylist, description, para, outcome, clock,
                 runs, pre, last>>

\* variant with a fault: the pages are listed next to their index
CapabilityEntriesListsPagesToo(doc_type, files, has_index, url_prefix) ==
  (IF has_index
   THEN << [uri |-> uri_from_path(url_prefix, doc_type, INDEX), capability |-> doc_type] >>
   ELSE <<>>)
  \o LET doc_list_files == SortedNames(DOMAIN files)
     IN [i \in DOMAIN doc_list_files |->
           [uri |-> uri_from_path(url_prefix, doc_type, doc_list_files[i]),
            capability |-> doc_type]]

\* the entries of one document type in the capability list
CapabilityEntries(doc_type, files, has_index, url_prefix) ==
  IF has_index
  THEN << [uri |-> uri_from_path(url_prefix, doc_type, INDEX), capability |-> doc_type] >>
  ELSE LET doc_list_files == SortedNames(DOMAIN files)
       IN [i \in DOMAIN doc_list_files |->
             [uri |-> uri_from_path(url_prefix, doc_type, doc_list_files[i]),
              capability |-> doc_type]]

\* the pages on disk of a document type
PagesOf(doc_type) ==
  IF doc_type = "resourcelist" THEN resourcelists
  ELSE IF doc_type = "changelist" THEN changelists
  ELSE EmptyFiles

\* Executor.create_capabilitylist
CreateCapabilitylist ==
  /\ pc = "caplist"
  /\ LET Entries(doc_type) ==
           CapabilityEntries(doc_type, PagesOf(doc_type), doc_type \in DOMAIN indexes,
                             para.url_prefix)
         event == Completed([NewCapabilityList EXCEPT
                               !.resources = Entries("resourcelist") \o Entries("changelist")
                                             \o Entries("resourcedump")
                                             \o Entries("changedump")],
                            para)
     IN /\ capabilitylist' = IF para.is_saving_sitemaps THEN event.document
                             ELSE capabilitylist
        /\ exe' = [exe EXCEPT !.stages = Append(@, "create_capabilitylist"),
                              !.completed = Append(@, event)]
  /\ pc' = StageAfter(pc)
  /\ UNCHANGED <<resourcelists, changelists, indexes, description, para, outcome, clock,
                 runs, pre, last>>

\* variant with a fault: the entry is added whether or not its uri is there already
AddResourceAppends(resources, resource) == Append(resources, resource)

\* SourceDescription.add(resource, replace=True): the resources are kept by uri
AddResource(resources, resource) == Upsert(resources, resource)

\* Executor.update_resource_sync, then the end of Executor.execute
UpdateResourceSync ==
  /\ pc = "desc"
  /\ LET capabilitylist_data == exe.completed[Len(exe.completed)].sitemap_data
         src_description == IF description # NoDoc THEN description ELSE NewSourceDescription
         added == [src_description EXCEPT
                     !.resources = AddResource(@, [uri |-> capabilitylist_data.uri,
                                                   capability |-> "capabilitylist"])]
         sitemap_data == SitemapData(Len(added.resources), -1,
                                     current_description_url(para.url_prefix), <<>>,
                                     "description", para.is_saving_sitemaps)
     IN /\ description' = IF para.is_saving_sitemaps THEN added ELSE description
        /\ exe' = [exe EXCEPT
                     !.stages = @ \o <<"update_resource_sync", "execution_end">>,
                     !.completed = Append(@, [document |-> added,
                                              sitemap_data |-> sitemap_data])]
  /\ pc' = StageAfter(pc)
  /\ outcome' = "completed"
  /\ UNCHANGED <<resourcelists, changelists, indexes, capabilitylist, para, clock,
                 runs, pre, last>>

\* ------------------------------------------------------------------------
\* Specification
\* ------------------------------------------------------------------------
Next ==
  \/ \E strategy \in Strategy, is_saving_sitemaps \in BOOLEAN,
        max_items_in_list \in 1..MaxItemsBound, files \in Files :
       runs < MaxRuns
       /\ Execute(strategy, FALSE, is_saving_sitemaps, max_items_in_list, 1, files)
  \/ \E ok \in BOOLEAN : PrepareMetadataDir(ok)
  \/ GenerateResourcelists
  \/ GenerateChangelists
  \/ PostProcessDocuments
  \/ CreateChangelistIndex
  \/ CreateResourcelistIndex
  \/ CreateCapabilitylist
  \/ UpdateResourceSync

Spec == Init /\ [][Next]_vars

\* ------------------------------------------------------------------------
\* Longer histories of one resource: saving runs of any strategy, with and
\* without start_new, over a single file that is created, changed and
\* deleted, one resource per page
\* ------------------------------------------------------------------------
MaxHistoryRuns == 5

\* the file with the second uri is never there
OneFile == {f \in Files : \A u \in Uris \ {1} : f[u] = Absent}

HistoryNext ==
  \/ \E strategy \in Strategy, start_new \in BOOLEAN, files \in OneFile :
       runs < MaxHistoryRuns
       /\ Execute(strategy, start_new, TRUE, 1, 1, files)
  \/ \E ok \in BOOLEAN : PrepareMetadataDir(ok)
  \/ GenerateResourcelists
  \/ GenerateChangelists
  \/ PostProcessDocuments
  \/ CreateChangelistIndex
  \/ CreateResourcelistIndex
  \/ CreateCapabilitylist
  \/ UpdateResourceSync

HistorySpec == Init /\ [][HistoryNext]_vars

\* ------------------------------------------------------------------------
\* Many pages under the narrowest zero fill: saving new_changelist runs over
\* a single file that differs from run to run, one resource per page
\* ------------------------------------------------------------------------
\* the least zero_fill_filename the parameters accept
MIN_ZERO_FILL == 1

MaxWidthRuns == 13

WidthInit ==
  /\ resourcelists = EmptyFiles
  /\ changelists = EmptyFiles
  /\ indexes = EmptyFiles
  /\ capabilitylist = NoDoc
  /\ description = NoDoc
  /\ para = InitPara(MIN_ZERO_FILL)
  /\ exe = InitExe
  /\ pc = "idle"
  /\ outcome = "none"
  /\ clock = 0
  /\ runs = 0
  /\ pre = Snapshot
  /\ last = NoRun

WidthNext ==
  \/ \E files \in OneFile :
       /\ runs < MaxWidthRuns
       /\ Content(resource_generator(files, clock + 1)) # Content(para.filenames)
       /\ Execute("new_changelist", FALSE, TRUE, 1, 1, files)
  \/ \E ok \in BOOLEAN : PrepareMetadataDir(ok)
  \/ GenerateResourcelists
  \/ GenerateChangelists
  \/ PostProcessDocuments
  \/ CreateChangelistIndex
  \/ CreateResourcelistIndex
  \/ CreateCapabilitylist
  \/ UpdateResourceSync

WidthSpec == WidthInit /\ [][WidthNext]_vars

\* ------------------------------------------------------------------------
\* Runs under different url prefixes over one metadata directory: runs of
\* any strategy, saving or not, over a single file, one resource per page
\* ------------------------------------------------------------------------
NumPrefixes == 2

MaxPrefixRuns == 3

PrefixNext ==
  \/ \E strategy \in Strategy, is_saving_sitemaps \in BOOLEAN,
        url_prefix \in 1..NumPrefixes, files \in OneFile :
       runs < MaxPrefixRuns
       /\ Execute(strategy, FALSE, is_saving_sitemaps, 1, url_prefix, files)
  \/ \E ok \in BOOLEAN : PrepareMetadataDir(ok)
  \/ GenerateResourcelists
  \/ GenerateChangelists
  \/ PostProcessDocuments
  \/ CreateChangelistIndex
  \/ CreateResourcelistIndex
  \/ CreateCapabilitylist
  \/ UpdateResourceSync

PrefixSpec == Init /\ [][PrefixNext]_vars

\* ------------------------------------------------------------------------
\* RsParameters: the screening of max_items_in_list, zero_fill_filename and
\* strategy, at construction and on assignment.  A Python value is its type,
\* twice its numeric value (so that halves are integers) and its text.
\* ------------------------------------------------------------------------
PyInt(n) == [kind |-> "int", twice |-> 2 * n, name |-> ""]
PyFloat(twice) == [kind |-> "float", twice |-> twice, name |-> ""]
PyBool(b) == [kind |-> "bool", twice |-> IF b THEN 2 ELSE 0, name |-> ""]
PyComplex == [kind |-> "complex", twice |-> 2, name |-> ""]
PyStr(name) == [kind |-> "str", twice |-> 0, name |-> name]
PyNone == [kind |-> "NoneType", twice |-> 0, name |-> ""]
\* a member of the enum Strategy
Member(name) == [kind |-> "Strategy", twice |-> 0, name |-> name]

\* the values tried: integers around the limits, 0.5 and 1.5, the booleans,
\* 1+0j, some strings, None and a member of Strategy
PyValues ==
  {PyInt(n) : n \in {0, 1, 2, 10, 11, 50000, 50001, 20056}}
    \cup {PyFloat(t) : t \in {1, 3}}
    \cup {PyBool(b) : b \in BOOLEAN}
    \cup {PyComplex, PyNone}
    \cup {PyStr(n) : n \in {"foo", "names", "inc_changelist"}}
    \cup {Member(n) : n \in {"new_changelist"}}

\* the arguments tried at construction; None leaves the parameter to the configuration
CtorValues ==
  {PyNone, PyInt(2), PyInt(20056), PyStr("foo")}

\* rs_enum.Strategy of rspub.core: the names and their values
StrategyValue(name) ==
  CASE name = "resourcelist" -> 0
    [] name = "new_changelist" -> 1
    [] name = "inc_changelist" -> 2

StrategyNames == {"resourcelist", "new_changelist", "inc_changelist"}

\* isinstance(n, Number)
IsNumber(n) == n.kind \in {"int", "float", "bool", "complex"}

\* variant with a fault: the upper limit is not tested
assert_numberNoMax(n, min, max) ==
  IF ~IsNumber(n) THEN "ValueError"
  ELSE IF n.kind = "complex" THEN "TypeError"
  ELSE IF ~(2 * min <= n.twice) THEN "ValueError"
  ELSE "ok"

\* RsParameters._assert_number: the exception raised, or ok; the comparison
\* of an int with a complex number raises TypeError
assert_number(n, min, max) ==
  IF ~IsNumber(n) THEN "ValueError"
  ELSE IF n.kind = "complex" THEN "TypeError"
  ELSE IF ~(2 * min <= n.twice /\ n.twice <= 2 * max) THEN "ValueError"
  ELSE "ok"

\* Strategy.strategy_for: Strategy(value) raises ValueError, Strategy[value]
\* raises KeyError
strategy_for(value) ==
  IF value.kind = "Strategy" THEN [raised |-> "ok", strategy |-> value.name]
  ELSE IF value.kind \in {"int", "bool"}
  THEN IF \E n \in StrategyNames : 2 * StrategyValue(n) = value.twice
       THEN [raised |-> "ok",
             strategy |-> CHOOSE n \in StrategyNames : 2 * StrategyValue(n) = value.twice]
       ELSE [raised |-> "ValueError", strategy |-> ""]
  ELSE IF value.kind = "str" /\ value.name \in StrategyNames
  THEN [raised |-> "ok", strategy |-> value.name]
  ELSE [raised |-> "KeyError", strategy |-> ""]

\* RsParameters() with the defaults of an empty configuration
DefaultParameters ==
  [strategy |-> "resourcelist", max_items_in_list |-> PyInt(50000),
   zero_fill_filename |-> PyInt(4)]

\* RsParameters.__arg__: the argument, or the configured value if it is None
arg(value, default) == IF value # PyNone THEN value ELSE default

ParaInit ==
  /\ resourcelists = EmptyFiles
  /\ changelists = EmptyFiles
  /\ indexes = EmptyFiles
  /\ capabilitylist = NoDoc
  /\ description = NoDoc
  /\ para = DefaultParameters
  /\ exe = InitExe
  /\ pc = "idle"
  /\ outcome = "none"
  /\ clock = 0
  /\ runs = 0
  /\ pre = Snapshot
  /\ last = [arg |-> "none", value |-> <<>>, before |-> DefaultParameters]

\* rsp.max_items_in_list = max_items
SetMaxItemsInList(max_items) ==
  LET raised == assert_number(max_items, 1, 50000)
  IN /\ para' = IF raised = "ok" THEN [para EXCEPT !.max_items_in_list = max_items] ELSE para
     /\ outcome' = raised
     /\ last' = [arg |-> "max_items_in_list", value |-> <<max_items>>, before |-> para]
     /\ UNCHANGED <<store, exe, pc, clock, runs, pre>>

\* rsp.zero_fill_filename = zero_fill
SetZeroFillFilename(zero_fill) ==
  LET raised == assert_number(zero_fill, 1, 10)
  IN /\ para' = IF raised = "ok" THEN [para EXCEPT !.zero_fill_filename = zero_fill] ELSE para
     /\ outcome' = raised
     /\ last' = [arg |-> "zero_fill_filename", value |-> <<zero_fill>>, before |-> para]
     /\ UNCHANGED <<store, exe, pc, clock, runs, pre>>

\* rsp.strategy = value
SetStrategy(value) ==
  LET found == strategy_for(value)
  IN /\ para' = IF found.raised = "ok" THEN [para EXCEPT !.strategy = found.strategy] ELSE para
     /\ outcome' = found.raised
     /\ last' = [arg |-> "strategy", value |-> <<value>>, before |-> para]
     /\ UNCHANGED <<store, exe, pc, clock, runs, pre>>

\* rsp = RsParameters(strategy=..., max_items_in_list=..., zero_fill_filename=...):
\* the setters are called in this order; if one raises, no object is made and
\* rsp is what it was
Construct(strategy, max_items_in_list, zero_fill_filename) ==
  LET found == strategy_for(arg(strategy, Member(DefaultParameters.strategy)))
      max_items == arg(max_items_in_list, DefaultParameters.max_items_in_list)
      zero_fill == arg(zero_fill_filename, DefaultParameters.zero_fill_filename)
      raised == IF found.raised # "ok" THEN found.raised
                ELSE IF assert_number(max_items, 1, 50000) # "ok"
                THEN assert_number(max_items, 1, 50000)
                ELSE assert_number(zero_fill, 1, 10)
  IN /\ para' = IF raised = "ok"
                THEN [strategy |-> found.strategy, max_items_in_list |-> max_items,
                      zero_fill_filename |-> zero_fill]
                ELSE para
     /\ outcome' = raised
     /\ last' = [arg |-> "__init__",
                 value |-> <<strategy, max_items_in_list, zero_fill_filename>>,
                 before |-> para]
     /\ UNCHANGED <<store, exe, pc, clock, runs, pre>>

ParaNext ==
  \/ \E max_items \in PyValues : SetMaxItemsInList(max_items)
  \/ \E zero_fill \in PyValues : SetZeroFillFilename(zero_fill)
  \/ \E value \in PyValues : SetStrategy(value)
  \/ \E strategy \in CtorValues, max_items_in_list \in CtorValues,
        zero_fill_filename \in CtorValues :
       Construct(strategy, max_items_in_list, zero_fill_filename)

ParaSpec == ParaInit /\ [][ParaNext]_vars

\* ------------------------------------------------------------------------
\* rspub.util.gates: gate(includes, excludes) applied to one x.  A predicate
\* is given by its place in its list and its answer for x; an evaluation
\* yields the answer of the gate and the predicates called, in order.
\* ------------------------------------------------------------------------
MaxPredicates == 3

\* the lists of up to MaxPredicates answers
Answers == UNION {[1..n -> BOOLEAN] : n \in 0..MaxPredicates}

\* variant with a fault: every predicate is called
takewhileCallsAll(ps, wanted) ==
  LET stops == {i \in DOMAIN ps : ps[i] # wanted}
      first == IF stops = {} THEN Len(ps) + 1
               ELSE CHOOSE i \in stops : \A j \in stops : i <= j
  IN [taken |-> first - 1, called |-> [i \in 1..Len(ps) |-> i]]

\* list(takewhile(lambda predicate: predicate(x) is wanted, ps)): how many
\* are taken, and the predicates called, the one that stops it included
takewhile(ps, wanted) ==
  LET stops == {i \in DOMAIN ps : ps[i] # wanted}
      first == IF stops = {} THEN Len(ps) + 1
               ELSE CHOOSE i \in stops : \A j \in stops : i <= j
  IN [taken |-> first - 1,
      called |-> [i \in 1..(IF first > Len(ps) THEN Len(ps) ELSE first) |-> i]]

\* variant with a fault: true as soon as one predicate is false
nor_AnyFalse(ps) ==
  LET t == takewhile(ps, FALSE)
  IN [value |-> \E i \in DOMAIN ps : ~ps[i], called |-> t.called]

\* nor_(*ps)(x)
nor_(ps) ==
  LET t == takewhile(ps, FALSE)
  IN [value |-> t.taken = Len(ps), called |-> t.called]

\* not_(predicate)(x), the predicate given by its evaluation
not_(evaluated) == [value |-> ~evaluated.value, called |-> evaluated.called]

\* or_(*ps)(x)
or_(ps) == not_(nor_(ps))

\* the calls of one list, each with the name of the list
Called(list, called) == [i \in DOMAIN called |-> <<list, called[i]>>]

\* gate(includes, excludes)(x): and_ of or_(*includes) and nor_(*excludes);
\* the takewhile of and_ does not call the second when the first is false
gate(includes, excludes) ==
  LET included == or_(includes)
      excluded == nor_(excludes)
  IN IF ~included.value
     THEN [value |-> FALSE, called |-> Called("includes", included.called)]
     ELSE [value |-> excluded.value,
           called |-> Called("includes", included.called)
                        \o Called("excludes", excluded.called)]

GateInit ==
  /\ resourcelists = EmptyFiles
  /\ changelists = EmptyFiles
  /\ indexes = EmptyFiles
  /\ capabilitylist = NoDoc
  /\ description = NoDoc
  /\ para = [includes |-> <<>>, excludes |-> <<>>]
  /\ exe = [value |-> FALSE, called |-> <<>>]
  /\ pc = "idle"
  /\ outcome = "none"
  /\ clock = 0
  /\ runs = 0
  /\ pre = Snapshot
  /\ last = NoRun

\* g = gate(includes, excludes); g(x)
EvaluateGate(includes, excludes) ==
  /\ para' = [includes |-> includes, excludes |-> excludes]
  /\ exe' = gate(includes, excludes)
  /\ outcome' = "evaluated"
  /\ UNCHANGED <<store, pc, clock, runs, pre, last>>

GateNext == \E includes \in Answers, excludes \in Answers : EvaluateGate(includes, excludes)

GateSpec == GateInit /\ [][GateNext]_vars

\* ------------------------------------------------------------------------
\* The paginator on its own: changelist_generator applied to any number of
\* changes, with or without a changelist to resume
\* ------------------------------------------------------------------------
PagMaxItems == 3
PagMaxOrdinal == 1
PagMaxResume == 3
PagMaxGroup == 2

\* count resources with the uris first + 1 .. first + count
SomeResources(first, count) == [i \in 1..count |-> Resource(first + i, 1, 0)]

\* a changelist read from disk with k entries of an earlier run
StoredChangelist(k) ==
  [NewChangeList EXCEPT
     !.resources = [i \in 1..k |-> [Resource(100 + i, 1, 0) EXCEPT !.change = "created",
                                                                  !.md_datetime = 1]],
     !.md_from = 0, !.up = current_capabilitylist_url(1)]

PaginatorInit ==
  /\ resourcelists = EmptyFiles
  /\ changelists = EmptyFiles
  /\ indexes = EmptyFiles
  /\ capabilitylist = NoDoc
  /\ description = NoDoc
  /\ \E m \in 1..PagMaxItems, executor \in {"new_changelist", "inc_changelist"},
        ordinal \in -1..PagMaxOrdinal, k \in 1..PagMaxResume,
        c \in 0..PagMaxGroup, u \in 0..PagMaxGroup, d \in 0..PagMaxGroup :
       /\ executor = "new_changelist" => k = 1
       /\ ordinal = -1 => k = 1
       /\ para = [InitPara(ZFILL_DOC_COUNT) EXCEPT !.strategy = executor,
                                                   !.max_items_in_list = m]
       /\ exe = [InitExe EXCEPT
                   !.executor = executor,
                   !.date_start_processing = 2,
                   !.date_resourcelist_completed = 0,
                   !.date_changelist_from = IF executor = "new_changelist" /\ ordinal >= 0
                                            THEN 2 ELSE 0,
                   !.changes = [created |-> SomeResources(0, c),
                                updated |-> SomeResources(c, u),
                                deleted |-> SomeResources(c + u, d),
                                unchang |-> <<>>],
                   !.ordinal = ordinal,
                   !.changelist = IF executor = "inc_changelist" /\ ordinal >= 0
                                  THEN StoredChangelist(k) ELSE NoDoc]
  /\ pc = "paginate"
  /\ outcome = "running"
  /\ clock = 2
  /\ runs = 1
  /\ pre = Snapshot
  /\ last = NoRun

\* the generator runs to its end
Paginate ==
  /\ pc = "paginate"
  /\ LET yielded == changelist_generator(exe.changes, exe.changelist, exe.ordinal,
                                         para.max_items_in_list, exe.date_changelist_from,
                                         exe.date_start_processing)
     IN exe' = [exe EXCEPT !.found = TRUE,
                           !.yielded = yielded,
                           !.sitemap_data_iter =
                             DataOf(yielded, [para EXCEPT !.is_saving_sitemaps = FALSE])]
  /\ pc' = "paginated"
  /\ UNCHANGED <<resourcelists, changelists, indexes, capabilitylist, description, para,
                 outcome, clock, runs, pre, last>>

PaginatorSpec == PaginatorInit /\ [][Paginate]_vars

\* ========================================================================
\* Properties
\* ========================================================================
ChangelistExecutors == {"new_changelist", "inc_changelist"}

\* the run has classified the live resources
Reconciled == exe.found /\ exe.executor \in ChangelistExecutors

NumChanges == Len(exe.changes.created) + Len(exe.changes.updated) + Len(exe.changes.deleted)

Md5Of(d, uri) == Lookup(d, uri).md5

NoDuplicateUris(d) == Cardinality(UrisOf(d)) = Len(d)

\* C2: the reconciler classifies a uri as created when only the live
\* resources have it, as deleted when only the previous resources have it,
\* as updated when both have it with different content hashes and as
\* unchanged when both have it with the same hash; the four groups are
\* disjoint and cover every uri; lastmod plays no part.
C2_Classification ==
  Reconciled =>
    LET prev_r == exe.previous_resources
        curr_r == para.filenames
        both == UrisOf(prev_r) \cap UrisOf(curr_r)
        created == UrisOf(exe.changes.created)
        updated == UrisOf(exe.changes.updated)
        deleted == UrisOf(exe.changes.deleted)
        unchang == UrisOf(exe.changes.unchang)
    IN /\ created = UrisOf(curr_r) \ UrisOf(prev_r)
       /\ deleted = UrisOf(prev_r) \ UrisOf(curr_r)
       /\ updated = {u \in both : Md5Of(curr_r, u) # Md5Of(prev_r, u)}
       /\ unchang = {u \in both : Md5Of(curr_r, u) = Md5Of(prev_r, u)}
       /\ created \cap updated = {} /\ created \cap deleted = {} /\ created \cap unchang = {}
       /\ updated \cap deleted = {} /\ updated \cap unchang = {} /\ deleted \cap unchang = {}
       /\ created \cup updated \cup deleted \cup unchang = UrisOf(prev_r) \cup UrisOf(curr_r)
       /\ NoDuplicateUris(exe.changes.created) /\ NoDuplicateUris(exe.changes.updated)
       /\ NoDuplicateUris(exe.changes.deleted) /\ NoDuplicateUris(exe.changes.unchang)

\* a resource is found unchanged although its lastmod differs from the recorded
\* one, while another uri of the same run is classified as a change
C2_Witness ==
  /\ Reconciled
  /\ \E i \in DOMAIN exe.changes.unchang :
       exe.changes.unchang[i].lastmod
         # Lookup(exe.previous_resources, exe.changes.unchang[i].uri).lastmod
  /\ NumChanges > 0

\* ------------------------------------------------------------------------
\* C3
\* ------------------------------------------------------------------------
\* the entries of all pages, pages in sorted file name order
AllEntries(files) == Concat(files, SortedNames(DOMAIN files))

\* prev_r is what the last entry for each uri says
LastEntryWins(prev_r, rls, cls) ==
  \A u \in Uris :
    LET ce == SelectSeq(AllEntries(cls),
                        LAMBDA r : r.uri = u /\ r.change \in {"created", "updated", "deleted"})
        re == SelectSeq(AllEntries(rls), LAMBDA r : r.uri = u)
    IN IF ce # <<>>
       THEN IF ce[Len(ce)].change = "deleted"
            THEN u \notin UrisOf(prev_r)
            ELSE u \in UrisOf(prev_r) /\ Lookup(prev_r, u) = ce[Len(ce)]
       ELSE IF re # <<>>
            THEN u \in UrisOf(prev_r) /\ Lookup(prev_r, u) = re[Len(re)]
            ELSE u \notin UrisOf(prev_r)

\* C3: the previous resources a changelist executor reconstructs are the
\* union of the resourcelist pages overridden, uri by uri, by the last
\* changelist entry for that uri in sorted page order and document order:
\* created and updated entries put the uri in, a deleted entry takes it out.
C3_ReplayIsLastEntryWins ==
  /\ Reconciled => LastEntryWins(exe.previous_resources, pre.resourcelists, pre.changelists)
  /\ LastEntryWins(update_previous_state(resourcelists, changelists).previous_resources,
                   resourcelists, changelists)

\* a replay over changelist pages that delete one uri and update another
C3_Witness ==
  /\ Reconciled
  /\ \E n \in DOMAIN pre.changelists :
       \E i \in DOMAIN pre.changelists[n].resources :
         /\ pre.changelists[n].resources[i].change = "deleted"
         /\ pre.changelists[n].resources[i].uri \notin UrisOf(exe.previous_resources)
  /\ \E n \in DOMAIN pre.changelists :
       \E i \in DOMAIN pre.changelists[n].resources :
         /\ pre.changelists[n].resources[i].change = "updated"
         /\ pre.changelists[n].resources[i] \in Range(exe.previous_resources)

\* ------------------------------------------------------------------------
\* Pagination: C4 - C9
\* ------------------------------------------------------------------------
SizeOf(i) == Len(exe.yielded[i].sitemap.resources)

\* the changelist the incremental executor loaded holds k resources
Loaded == exe.changelist # NoDoc
LoadedSize == Len(exe.changelist.resources)

\* the paginator keeps on filling the loaded changelist
Resuming == Loaded /\ 0 < LoadedSize /\ LoadedSize < para.max_items_in_list

\* the paginator starts a fresh sequence of documents
Fresh == exe.found /\ ~Resuming

Min(a, b) == IF a < b THEN a ELSE b

CeilDiv(a, b) == (a + b - 1) \div b

\* C4: no document a run yields holds more than max_items_in_list resources
\* and every yielded document but the last holds exactly that many; the
\* descriptors report the same counts.
C4_PagesFullButLast ==
  exe.found =>
    /\ Len(exe.sitemap_data_iter) = Len(exe.yielded)
    /\ \A i \in DOMAIN exe.yielded :
         /\ SizeOf(i) <= para.max_items_in_list
         /\ SizeOf(i) >= 1
         /\ i < Len(exe.yielded) => SizeOf(i) = para.max_items_in_list
         /\ exe.sitemap_data_iter[i].resource_count = SizeOf(i)

\* a resumed changelist is filled up and closed and a further document follows
C4_Witness ==
  /\ runs > 1 /\ exe.found /\ Resuming
  /\ Len(exe.yielded) >= 2
  /\ SizeOf(1) = para.max_items_in_list
  /\ para.is_saving_sitemaps

\* C5: a fresh sequence for n changes has ceil(n / m) documents, the last of
\* which holds n mod m resources, or m when m divides n.
C5_FreshPageCount ==
  Fresh =>
    LET n == NumChanges
        m == para.max_items_in_list
    IN /\ Len(exe.yielded) = CeilDiv(n, m)
       /\ n > 0 => SizeOf(Len(exe.yielded)) = (IF n % m = 0 THEN m ELSE n % m)

\* a fresh sequence of three documents, the last one not full
C5_Witness ==
  /\ pc = "paginated" /\ Fresh
  /\ Len(exe.yielded) = 3
  /\ NumChanges % para.max_items_in_list # 0

\* C6 as stated, for at least one new change: resuming a changelist of k < m
\* resources with j changes gives a first document of min(k + j, m)
\* resources and, if k + j > m, a second one with the remaining k + j - m.
C6_ResumeTwoDocuments ==
  (exe.found /\ Resuming /\ NumChanges > 0) =>
    LET k == LoadedSize
        j == NumChanges
        m == para.max_items_in_list
    IN /\ Len(exe.yielded) >= 1
       /\ SizeOf(1) = Min(k + j, m)
       /\ IF k + j > m
          THEN Len(exe.yielded) = 2 /\ SizeOf(2) = k + j - m
          ELSE Len(exe.yielded) = 1

\* C6 amended: with j = 0 nothing is yielded; with j > 0 the first document
\* is the resumed one, holding its k old entries followed by new ones up to
\* min(k + j, m), and the remaining k + j - m resources follow in further
\* documents of m resources each, the last one holding what is left:
\* ceil((k + j) / m) documents in all.
C6_ResumeFillsThenContinues ==
  (exe.found /\ Resuming) =>
    LET k == LoadedSize
        j == NumChanges
        m == para.max_items_in_list
    IN IF j = 0 THEN exe.yielded = <<>>
       ELSE /\ Len(exe.yielded) = CeilDiv(k + j, m)
            /\ SubSeq(exe.yielded[1].sitemap.resources, 1, k) = exe.changelist.resources
            /\ \A i \in DOMAIN exe.yielded : SizeOf(i) = Min(m, k + j - (i - 1) * m)

\* a resumed changelist overflows into a second full document and a third one
C6_Witness ==
  /\ pc = "paginated" /\ Resuming
  /\ Len(exe.yielded) = 3
  /\ LoadedSize + NumChanges > 2 * para.max_items_in_list

\* the pages of the executor's capability when the paginator starts
PagesAtStart ==
  IF exe.executor = "resourcelist"
  THEN IF para.is_saving_sitemaps THEN EmptyFiles ELSE pre.resourcelists
  ELSE pre.changelists

\* pagination is over and nothing else has touched the pages yet
JustPaginated == pc = "post"

\* C7: resuming a changelist of 0 < k < max_items_in_list resources, the
\* first yielded document has the ordinal and the file of the resumed one
\* and no file is added unless that document got full; a loaded changelist
\* of k >= max_items_in_list resources is dropped, pagination leaves its
\* file as it is and the first yielded document has ordinal lastOrdinal + 1.
C7_ResumeOrDiscard ==
  (JustPaginated /\ exe.executor = "inc_changelist" /\ Loaded) =>
    LET name == exe.changelist_files[Len(exe.changelist_files)]
        m == para.max_items_in_list
    IN /\ exe.changelist = pre.changelists[name]
       /\ exe.ordinal = ToInt(name)
       /\ (Resuming /\ exe.yielded # <<>>) =>
            /\ exe.yielded[1].ordinal = exe.ordinal
            /\ exe.sitemap_data_iter[1].name = name
            /\ SubSeq(exe.yielded[1].sitemap.resources, 1, LoadedSize)
                 = exe.changelist.resources
            /\ SizeOf(1) < m => DOMAIN changelists = DOMAIN pre.changelists
            /\ para.is_saving_sitemaps =>
                 changelists[name].resources = exe.yielded[1].sitemap.resources
       /\ LoadedSize >= m =>
            /\ changelists[name] = pre.changelists[name]
            /\ exe.yielded # <<>> =>
                 /\ exe.yielded[1].ordinal = exe.ordinal + 1
                 /\ exe.sitemap_data_iter[1].name # name
                 /\ \A i \in 1..SizeOf(1) :
                      exe.yielded[1].sitemap.resources[i].md_datetime
                        = exe.date_start_processing

\* a full changelist is loaded and dropped, and a saving run yields a document
C7_Witness ==
  /\ JustPaginated /\ exe.executor = "inc_changelist" /\ Loaded
  /\ LoadedSize >= para.max_items_in_list
  /\ exe.yielded # <<>>
  /\ para.is_saving_sitemaps

\* C8: the documents of a fresh sequence get the ordinals lastOrdinal + 1,
\* lastOrdinal + 2, ... in the order they are yielded, where lastOrdinal is
\* what find_ordinal returned, -1 when the capability has no page, so that
\* the very first page gets ordinal 0; the page names carry these ordinals.
C8_FreshOrdinals ==
  (Fresh /\ pc # "paginated") =>
    /\ DOMAIN PagesAtStart = {} => exe.ordinal = -1
    /\ DOMAIN PagesAtStart # {} =>
         \E n \in DOMAIN PagesAtStart : exe.ordinal = ToInt(n)
    /\ \A i \in DOMAIN exe.yielded :
         /\ exe.yielded[i].ordinal = exe.ordinal + i
         /\ exe.sitemap_data_iter[i].ordinal = exe.ordinal + i
         /\ exe.sitemap_data_iter[i].name = format_ordinal(exe.ordinal + i, para.zfill_doc_count)
         /\ ToInt(exe.sitemap_data_iter[i].name) = exe.ordinal + i
    /\ (DOMAIN PagesAtStart = {} /\ exe.yielded # <<>>) => exe.yielded[1].ordinal = 0

\* a fresh sequence of two changelists on top of existing changelists
C8_Witness ==
  /\ Fresh /\ pc # "paginated"
  /\ exe.executor \in ChangelistExecutors
  /\ exe.ordinal >= 0
  /\ Len(exe.yielded) >= 2

\* C9: a run that finds no change yields no document, and no changelist page
\* is added, removed or rewritten in any stage of the run, whether or not a
\* changelist was loaded to be resumed.
C9_NoChangesNoDocuments ==
  (Reconciled /\ NumChanges = 0) =>
    /\ exe.yielded = <<>>
    /\ exe.sitemap_data_iter = <<>>
    /\ changelists = pre.changelists

\* a saving incremental run that loaded a changelist to resume, found no
\* change and ran to its end
C9_Witness ==
  /\ Reconciled /\ NumChanges = 0
  /\ Resuming
  /\ para.is_saving_sitemaps
  /\ pc = "idle" /\ outcome = "completed"
  /\ exe.changes.unchang # <<>>

\* ------------------------------------------------------------------------
\* C10
\* ------------------------------------------------------------------------
HadResourcelist == DOMAIN pre.resourcelists # {}

Unimplemented == {"resourcedump", "changedump"}

\* what the dispatch of the last execute call must have been
DispatchRule ==
  /\ ~HadResourcelist => exe.executor = "resourcelist"
  /\ exe.executor = "new_changelist" =>
       HadResourcelist /\ para.strategy = "new_changelist" /\ ~para.start_new
  /\ exe.executor = "inc_changelist" =>
       HadResourcelist /\ para.strategy = "inc_changelist" /\ ~para.start_new
  /\ exe.executor = "resourcelist" <=> (para.strategy = "new_resourcelist" \/ para.start_new)

\* C10 as stated: the dispatch rule, and every execute call runs an executor.
C10_AlwaysOneExecutor ==
  runs > 0 => (DispatchRule /\ exe.executor # "none")

\* C10 amended: the executor is chosen once, when execute is called, by the
\* dispatch rule; it is the only executor of the call; and no executor runs
\* at all exactly when a resourcelist page exists, start_new is false and
\* the strategy is resourcedump or changedump, in which case execute raises
\* NotImplementedError.
C10_Dispatch ==
  [][/\ runs' = runs + 1 =>
          /\ DispatchRule'
          /\ exe'.executor = "none"
               <=> (HadResourcelist' /\ ~para'.start_new /\ para'.strategy \in Unimplemented)
          /\ exe'.executor = "none" <=> outcome' = "not_implemented"
          /\ exe'.executor # "none" <=> pc' = "prepare"
     /\ runs' = runs => (exe'.executor = exe.executor /\ para' = para)]_vars

\* an incremental strategy on an empty metadata directory ran the full snapshot
C10_Witness ==
  /\ runs > 0 /\ ~HadResourcelist
  /\ para.strategy = "inc_changelist"
  /\ exe.executor = "resourcelist"
  /\ outcome = "completed"
  /\ DOMAIN resourcelists # {}

AfterRun == pc = "idle" /\ outcome = "completed"

HasChangelistIndex == "changelist" \in DOMAIN indexes

\* C12 as stated: after any run changelist-index.xml exists if and only if
\* more than one changelist page exists.
C12_IndexIffManyPages ==
  AfterRun => (HasChangelistIndex <=> Cardinality(DOMAIN changelists) > 1)

\* C12 for saving runs only: after a run that saves its documents the index
\* exists if and only if more than one changelist page exists.
C12_IndexIffManyPagesSaving ==
  (AfterRun /\ para.is_saving_sitemaps) =>
    (HasChangelistIndex <=> Cardinality(DOMAIN changelists) > 1)

\* a dry run of a changelist executor over two changelist pages and their index
C12_Witness ==
  /\ AfterRun /\ ~para.is_saving_sitemaps
  /\ exe.executor \in ChangelistExecutors
  /\ Cardinality(DOMAIN pre.changelists) > 1
  /\ "changelist" \in DOMAIN pre.indexes

\* ------------------------------------------------------------------------
\* C13
\* ------------------------------------------------------------------------
\* the document a uri of the capability list names is in the metadata directory
Resolves(uri) ==
  LET doc_type == uri[2]
      name == uri[3]
  IN IF name = INDEX THEN doc_type \in DOMAIN indexes
     ELSE name \in DOMAIN PagesOf(doc_type)

Consistent(caplist) ==
  caplist # NoDoc => \A i \in DOMAIN caplist.resources : Resolves(caplist.resources[i].uri)

\* C13 as stated: after any run every uri listed by the capability list in
\* the metadata directory names a document that exists there.
C13_CapabilitylistResolves == AfterRun => Consistent(capabilitylist)

\* C13 for saving runs only: after a run that saves its documents every uri
\* listed by the capability list names a document that exists.
C13_CapabilitylistResolvesSaving ==
  (AfterRun /\ para.is_saving_sitemaps) => Consistent(capabilitylist)

\* a dry run of a changelist executor over a capability list that lists the
\* changelist index
C13_Witness ==
  /\ AfterRun /\ ~para.is_saving_sitemaps
  /\ exe.executor \in ChangelistExecutors
  /\ capabilitylist # NoDoc
  /\ \E i \in DOMAIN capabilitylist.resources :
       capabilitylist.resources[i].uri = uri_from_path(1, "changelist", INDEX)

\* ------------------------------------------------------------------------
\* C14
\* ------------------------------------------------------------------------
DocTypes == {"resourcelist", "changelist", "resourcedump", "changedump"}

\* the capability list create_capabilitylist has just built
BuiltCapabilitylist == exe.completed[Len(exe.completed)].document

\* the entries of one kind in a capability list
EntriesOfKind(caplist, doc_type) ==
  SelectSeq(caplist.resources, LAMBDA r : r.capability = doc_type)

\* C14: the capability list a run builds holds, for each of resourcelist,
\* changelist, resourcedump and changedump, the uri of the index and nothing
\* else of that kind if the index exists, and otherwise one entry for every
\* page of that kind and nothing else; it holds no entry of another kind.
C14_IndexOrPages ==
  pc = "desc" =>
    /\ BuiltCapabilitylist.kind = "capabilitylist"
    /\ \A i \in DOMAIN BuiltCapabilitylist.resources :
         BuiltCapabilitylist.resources[i].capability \in DocTypes
    /\ \A doc_type \in DocTypes :
         LET entries == EntriesOfKind(BuiltCapabilitylist, doc_type)
             pages == DOMAIN PagesOf(doc_type)
         IN IF doc_type \in DOMAIN indexes
            THEN /\ Len(entries) = 1
                 /\ entries[1].uri = uri_from_path(para.url_prefix, doc_type, INDEX)
            ELSE /\ Len(entries) = Cardinality(pages)
                 /\ {entries[i].uri : i \in DOMAIN entries}
                      = {uri_from_path(para.url_prefix, doc_type, n) : n \in pages}

\* a capability list built over two changelist pages with their index and a
\* resourcelist page without index
C14_Witness ==
  /\ pc = "desc"
  /\ "changelist" \in DOMAIN indexes /\ Cardinality(DOMAIN changelists) > 1
  /\ "resourcelist" \notin DOMAIN indexes /\ DOMAIN resourcelists # {}
  /\ Len(BuiltCapabilitylist.resources) = 2

\* ------------------------------------------------------------------------
\* C15
\* ------------------------------------------------------------------------
\* a run with is_saving_sitemaps False is under way or has ended
DryRun == outcome \in {"running", "completed"} /\ ~para.is_saving_sitemaps

\* C15 as stated: after a run with is_saving_sitemaps False the documents in
\* the metadata directory and their contents are what they were before the
\* run, and every descriptor the run produced has document_saved False.
C15_DryRunChangesNothing ==
  (AfterRun /\ ~para.is_saving_sitemaps) =>
    /\ Snapshot = pre
    /\ \A i \in DOMAIN exe.completed : ~exe.completed[i].sitemap_data.document_saved

\* C15 without the changelist index: a dry run leaves every resourcelist,
\* changelist, the resourcelist index, the capability list and the description
\* as they were, produces descriptors with document_saved False only, among
\* them one for every page generated, for the capability list and for the
\* description; the changelist index is either as it was or removed.
C15_DryRunRemovesOnlyIndex ==
  DryRun =>
    /\ resourcelists = pre.resourcelists
    /\ changelists = pre.changelists
    /\ capabilitylist = pre.capabilitylist
    /\ description = pre.description
    /\ \/ indexes = pre.indexes
       \/ /\ "changelist" \in DOMAIN pre.indexes
          /\ indexes = Delete(pre.indexes, "changelist")
    /\ \A i \in DOMAIN exe.completed : ~exe.completed[i].sitemap_data.document_saved
    /\ AfterRun =>
         /\ Len(exe.completed) >= Len(exe.yielded) + 2
         /\ exe.completed[Len(exe.completed)].sitemap_data.capability_name = "description"
         /\ exe.completed[Len(exe.completed) - 1].sitemap_data.capability_name
              = "capabilitylist"

\* a dry run that generated a changelist page next to the documents of
\* earlier runs, the changelist index among them
C15_Witness ==
  /\ AfterRun /\ ~para.is_saving_sitemaps
  /\ Len(exe.yielded) > 0
  /\ "changelist" \in DOMAIN pre.indexes
  /\ pre.description # NoDoc

\* ------------------------------------------------------------------------
\* C16
\* ------------------------------------------------------------------------
\* C16: when the observers decline clear_metadata_directory the run ends with
\* ObserverInterruptException, the metadata directory is what it was before
\* the call, and no stage after prepare_metadata_dir has run: nothing was
\* generated and no document was completed.
C16_VetoLeavesStore ==
  outcome = "interrupted" =>
    /\ pc = "idle"
    /\ Snapshot = pre
    /\ exe.stages = <<"execution_start", "prepare_metadata_dir">>
    /\ exe.yielded = <<>> /\ exe.completed = <<>> /\ ~exe.found

\* a vetoed full snapshot over the documents of earlier runs
C16_Witness ==
  /\ outcome = "interrupted"
  /\ DOMAIN pre.resourcelists # {} /\ DOMAIN resourcelists # {}
  /\ capabilitylist # NoDoc /\ description # NoDoc

\* ------------------------------------------------------------------------
\* C17
\* ------------------------------------------------------------------------
\* the events and stages of a run of Executor.execute that is not aborted
StagesOfRun ==
  <<"execution_start", "prepare_metadata_dir", "generate_rs_documents",
    "post_process_documents", "create_index", "create_capabilitylist",
    "update_resource_sync", "execution_end">>

IsPrefix(a, b) == Len(a) <= Len(b) /\ a = SubSeq(b, 1, Len(a))

\* C17: the stages of a run are performed in the order execution_start,
\* generation, post-processing, index, capability list, description,
\* execution_end; a run that is not aborted performs all of them, whatever
\* the number of changes, and a saving run leaves the capability list and the
\* description it built in the metadata directory.
C17_StageOrder ==
  /\ outcome \in {"running", "completed", "interrupted"} => IsPrefix(exe.stages, StagesOfRun)
  /\ AfterRun =>
       /\ exe.stages = StagesOfRun
       /\ para.is_saving_sitemaps =>
            /\ capabilitylist = exe.completed[Len(exe.completed) - 1].document
            /\ description = exe.completed[Len(exe.completed)].document

\* a saving changelist run that found no change and went through all stages
C17_Witness ==
  /\ AfterRun /\ para.is_saving_sitemaps
  /\ Reconciled /\ NumChanges = 0
  /\ exe.yielded = <<>>
  /\ Len(exe.completed) = 2

\* ------------------------------------------------------------------------
\* C18
\* ------------------------------------------------------------------------
\* the numerically greatest ordinal among the page names, -1 if there is none
MaxOrdinal(files) ==
  IF DOMAIN files = {} THEN -1
  ELSE CHOOSE m \in {ToInt(n) : n \in DOMAIN files} :
         \A n \in DOMAIN files : ToInt(n) <= m

\* the sorted page names are in the numeric order of their ordinals
LexIsNumeric(files) ==
  LET rs_files == SortedNames(DOMAIN files)
  IN \A i, j \in DOMAIN rs_files : i < j => ToInt(rs_files[i]) < ToInt(rs_files[j])

\* the changelists that were there when a new_changelist run began are
\* untouched by the pages the run has written
FreshRunKeepsPages ==
  (pc = "post" /\ exe.executor = "new_changelist") =>
    \A n \in DOMAIN pre.changelists : changelists[n] = pre.changelists[n]

\* every page name has exactly zfill_doc_count digits
WithinWidth(files) == \A n \in DOMAIN files : Len(n) = para.zfill_doc_count

\* C18 as stated: whatever the runs and the zero fill, the sorted page names
\* of a capability are in numeric order, find_ordinal returns the greatest
\* ordinal there is, and a run that starts new changelists does not write to
\* a page that exists.
C18_OrdinalsOrdered ==
  /\ \A doc_type \in {"resourcelist", "changelist"} :
       /\ LexIsNumeric(PagesOf(doc_type))
       /\ find_ordinal(PagesOf(doc_type)) = MaxOrdinal(PagesOf(doc_type))
  /\ FreshRunKeepsPages

\* C18 while the ordinals fit the zero fill: as long as every page name of a
\* capability has zfill_doc_count digits the sorted names are in numeric
\* order and find_ordinal returns the greatest ordinal, and a run that starts
\* new changelists among such names does not write to a page that exists.
C18_OrdinalsOrderedWithinWidth ==
  /\ \A doc_type \in {"resourcelist", "changelist"} :
       WithinWidth(PagesOf(doc_type)) =>
         /\ LexIsNumeric(PagesOf(doc_type))
         /\ find_ordinal(PagesOf(doc_type)) = MaxOrdinal(PagesOf(doc_type))
  /\ WithinWidth(changelists) => FreshRunKeepsPages

\* eleven changelist pages under a zero fill of one digit
C18_Witness ==
  /\ AfterRun
  /\ para.zfill_doc_count = 1
  /\ Cardinality(DOMAIN changelists) = 11

\* ------------------------------------------------------------------------
\* C19
\* ------------------------------------------------------------------------
\* the parent link a document of this kind is to carry
ParentOf(kind) ==
  IF kind = "capabilitylist" THEN current_description_url(para.url_prefix)
  ELSE current_capabilitylist_url(para.url_prefix)

\* C19: every document that went through finish_sitemap in a run, be it a
\* resourcelist, a changelist, an index or the capability list, has as its
\* up link the uri of the capability list, except the capability list, whose
\* up link is the uri of the description; so have the documents in the
\* metadata directory.
C19_ParentLink ==
  /\ \A i \in DOMAIN exe.completed :
       exe.completed[i].sitemap_data.capability_name # "description" =>
         /\ exe.completed[i].document.kind = exe.completed[i].sitemap_data.capability_name
         /\ exe.completed[i].document.up = ParentOf(exe.completed[i].document.kind)
  /\ \A n \in DOMAIN resourcelists : resourcelists[n].up = ParentOf("resourcelist")
  /\ \A n \in DOMAIN changelists : changelists[n].up = ParentOf("changelist")
  /\ \A n \in DOMAIN indexes : indexes[n].up = ParentOf(n)
  /\ capabilitylist # NoDoc => capabilitylist.up = ParentOf("capabilitylist")

\* a run that finished a changelist page, the changelist index and the
\* capability list
C19_Witness ==
  /\ AfterRun /\ para.is_saving_sitemaps
  /\ \E i, j, k \in DOMAIN exe.completed :
       /\ exe.completed[i].document.kind = "changelist"
       /\ ~exe.completed[i].document.sitemapindex
       /\ exe.completed[j].document.kind = "changelist"
       /\ exe.completed[j].document.sitemapindex
       /\ exe.completed[k].document.kind = "capabilitylist"
  /\ current_description_url(para.url_prefix) # current_capabilitylist_url(para.url_prefix)

\* ------------------------------------------------------------------------
\* C20
\* ------------------------------------------------------------------------
\* a run that saves its documents has gone through all its stages
AfterSavingRun == AfterRun /\ para.is_saving_sitemaps

\* the entry update_resource_sync adds for the capability list of this run
CapabilitylistEntry ==
  [uri |-> current_capabilitylist_url(para.url_prefix), capability |-> "capabilitylist"]

\* C20 as stated: after a saving run the description holds exactly one entry,
\* the uri of the capability list of that run.
C20_OneCapabilitylistEntry ==
  AfterSavingRun => description.resources = <<CapabilitylistEntry>>

\* C20 by uri: after a saving run the description holds exactly one entry
\* with the uri of the capability list of that run, no uri twice, nothing
\* but capability lists, and besides that entry exactly the entries with
\* other uris that the description held before the run and that
\* clear_metadata_dir did not remove with it.
C20_OneEntryPerUri ==
  AfterSavingRun =>
    LET kept == IF pre.description = NoDoc \/ exe.executor = "resourcelist" THEN {}
                ELSE Range(pre.description.resources)
    IN /\ Cardinality({i \in DOMAIN description.resources :
                          description.resources[i].uri = CapabilitylistEntry.uri}) = 1
       /\ Cardinality(UrisOf(description.resources)) = Len(description.resources)
       /\ Range(description.resources) = kept \cup {CapabilitylistEntry}

\* a run whose capability list uri was in the description already, next to
\* the entry of a run under another url prefix
C20_Witness ==
  /\ AfterSavingRun
  /\ pre.description # NoDoc
  /\ CapabilitylistEntry \in Range(pre.description.resources)
  /\ Len(pre.description.resources) = 2
  /\ Len(description.resources) = 2

\* ------------------------------------------------------------------------
\* C21
\* ------------------------------------------------------------------------
\* the completion time of the resourcelist the run started from: md:completed
\* of the last resourcelist page, or its md:at
BaselineCompletedAt ==
  LET resourcelist_files == SortedNames(DOMAIN pre.resourcelists)
      rl == pre.resourcelists[resourcelist_files[Len(resourcelist_files)]]
  IN IF rl.md_completed # None THEN rl.md_completed ELSE rl.md_at

\* the documents of the run that the paginator opened itself
NewlyOpened ==
  {i \in DOMAIN exe.yielded : ~(i = 1 /\ Resuming)}

\* C21: a changelist opened in a run has md:from equal to the completion
\* time of the resourcelist when the executor is the incremental one or no
\* changelist page existed when the run started, and equal to the start time
\* of the run when the executor is the new-changelist one and a changelist
\* page existed.
C21_ValidFrom ==
  (pc = "post" /\ exe.executor \in ChangelistExecutors) =>
    \A i \in NewlyOpened :
      exe.yielded[i].sitemap.md_from =
        IF exe.executor = "inc_changelist" \/ DOMAIN pre.changelists = {}
        THEN BaselineCompletedAt
        ELSE exe.date_start_processing

\* a new-changelist run that opened a changelist next to an older one
C21_Witness ==
  /\ pc = "post" /\ exe.executor = "new_changelist"
  /\ DOMAIN pre.changelists # {}
  /\ NewlyOpened # {}
  /\ BaselineCompletedAt # exe.date_start_processing

\* ------------------------------------------------------------------------
\* C22
\* ------------------------------------------------------------------------
\* the last execute call raised NotImplementedError before any stage, and the
\* metadata directory is what it was
FailedUnimplemented ==
  /\ outcome = "not_implemented" /\ pc = "idle"
  /\ exe.executor = "none" /\ exe.stages = <<>> /\ exe.completed = <<>>
  /\ Snapshot = pre

\* C22 as stated: an execute call that finds a resourcelist page and a
\* strategy other than the three with an executor fails as not implemented,
\* runs no stage and leaves the metadata directory unchanged.
C22_UnimplementedFails ==
  (runs > 0 /\ HadResourcelist /\ para.strategy \in Unimplemented) => FailedUnimplemented

\* C22 without start_new: an execute call with start_new false that finds a
\* resourcelist page and a strategy other than the three with an executor
\* fails as not implemented, runs no stage and leaves the metadata directory
\* unchanged.
C22_UnimplementedFailsUnlessStartNew ==
  (runs > 0 /\ HadResourcelist /\ para.strategy \in Unimplemented /\ ~para.start_new)
    => FailedUnimplemented

\* a changedump call over a resourcelist and a changelist failed
C22_Witness ==
  /\ FailedUnimplemented
  /\ para.strategy = "changedump" /\ ~para.start_new
  /\ HadResourcelist /\ DOMAIN changelists # {}

\* ------------------------------------------------------------------------
\* C23
\* ------------------------------------------------------------------------
\* the value is a number from min to max
InRange(v, min, max) ==
  v.kind \in {"int", "float", "bool"} /\ 2 * min <= v.twice /\ v.twice <= 2 * max

\* the limits of the parameter assigned last
LimitsOfLast ==
  IF last.arg = "max_items_in_list" THEN <<1, 50000>> ELSE <<1, 10>>

AssignedNumber == last.arg \in {"max_items_in_list", "zero_fill_filename"}

\* the parameters hold a capacity and a width within their limits
ValidNumbers ==
  /\ InRange(para.max_items_in_list, 1, 50000)
  /\ InRange(para.zero_fill_filename, 1, 10)

\* C23 as stated: an assignment to max_items_in_list or zero_fill_filename
\* is accepted exactly if the value is a number within the limits; any other
\* value raises ValueError and leaves the parameters as they were; the
\* parameters are within their limits at all times.
C23_RejectsWithValueError ==
  /\ ValidNumbers
  /\ AssignedNumber =>
       IF InRange(last.value[1], LimitsOfLast[1], LimitsOfLast[2])
       THEN outcome = "ok" /\ para[last.arg] = last.value[1]
       ELSE outcome = "ValueError" /\ para = last.before

\* C23 but for the kind of exception: an assignment is accepted exactly if
\* the value is a number within the limits; any other value raises an
\* exception, ValueError unless the value is a complex number, and leaves
\* the parameters as they were; the parameters are within their limits at
\* all times.
C23_RejectsOutOfRange ==
  /\ ValidNumbers
  /\ AssignedNumber =>
       IF InRange(last.value[1], LimitsOfLast[1], LimitsOfLast[2])
       THEN outcome = "ok" /\ para[last.arg] = last.value[1]
       ELSE /\ outcome = IF last.value[1].kind = "complex" THEN "TypeError" ELSE "ValueError"
            /\ para = last.before

\* 50001 was assigned to max_items_in_list after 2 had been
C23_Witness ==
  /\ last.arg = "max_items_in_list" /\ last.value = <<PyInt(50001)>>
  /\ outcome = "ValueError"
  /\ para.max_items_in_list = PyInt(2)

\* ------------------------------------------------------------------------
\* C24
\* ------------------------------------------------------------------------
\* the value names a strategy: a member, the value of a member or its name
ValidStrategy(v) ==
  \/ v.kind = "Strategy"
  \/ v.kind \in {"int", "bool"} /\ v.twice \in {0, 2, 4}
  \/ v.kind = "str" /\ v.name \in StrategyNames

\* the strategy given to the last assignment or construction, None standing
\* for the configured one
StrategyGiven ==
  IF last.arg = "strategy" THEN last.value[1]
  ELSE arg(last.value[1], Member(DefaultParameters.strategy))

\* the last step failed on the strategy
StrategyRejected ==
  last.arg \in {"strategy", "__init__"} /\ ~ValidStrategy(StrategyGiven)

\* C24 as stated: an invalid strategy, given at construction or assigned,
\* raises ValueError and leaves the strategy as it was.
C24_InvalidStrategyValueError ==
  /\ para.strategy \in StrategyNames
  /\ StrategyRejected => (outcome = "ValueError" /\ para = last.before)

\* C24 but for the kind of exception: an invalid strategy, given at
\* construction or assigned, raises ValueError if it is an integer and
\* KeyError otherwise, and leaves the strategy as it was; a valid one given
\* by assignment is taken.
C24_InvalidStrategyRejected ==
  /\ para.strategy \in StrategyNames
  /\ StrategyRejected =>
       /\ outcome = IF StrategyGiven.kind \in {"int", "bool"} THEN "ValueError" ELSE "KeyError"
       /\ para = last.before
  /\ (last.arg = "strategy" /\ ValidStrategy(StrategyGiven)) =>
       (outcome = "ok" /\ para.strategy # "")

\* the name foo was assigned after inc_changelist had been
C24_Witness ==
  /\ last.arg = "strategy" /\ last.value = <<PyStr("foo")>>
  /\ outcome = "KeyError"
  /\ para.strategy = "inc_changelist"

\* ------------------------------------------------------------------------
\* C25
\* ------------------------------------------------------------------------
Evaluated == outcome = "evaluated"

SomeTrue(ps) == \E i \in DOMAIN ps : ps[i]

\* C25: the gate is true for x exactly if some include predicate is true
\* for x and no exclude predicate is; without include predicates it is false.
C25_GateValue ==
  Evaluated =>
    /\ exe.value <=> (SomeTrue(para.includes) /\ ~SomeTrue(para.excludes))
    /\ para.includes = <<>> => ~exe.value

\* a gate that let x pass its second include and its three excludes
C25_Witness ==
  /\ Evaluated /\ exe.value
  /\ para.includes = <<FALSE, TRUE>>
  /\ Len(para.excludes) = MaxPredicates

\* ------------------------------------------------------------------------
\* C26
\* ------------------------------------------------------------------------
\* the places of the predicates of a list that were called, in call order
CalledOf(list) ==
  LET of == SelectSeq(exe.called, LAMBDA c : c[1] = list)
  IN [i \in DOMAIN of |-> of[i][2]]

\* the places 1 .. k of a list, k the first place with the answer true, or
\* all places if there is none
UpToFirstTrue(ps) ==
  LET trues == {i \in DOMAIN ps : ps[i]}
      k == IF trues = {} THEN Len(ps) ELSE CHOOSE i \in trues : \A j \in trues : i <= j
  IN [i \in 1..k |-> i]

\* C26: the include predicates are called from left to right up to the first
\* that is true; the exclude predicates are called only if an include was
\* true, from left to right up to the first that is true; the includes are
\* called before the excludes and no predicate is called twice.
C26_ShortCircuit ==
  Evaluated =>
    /\ CalledOf("includes") = UpToFirstTrue(para.includes)
    /\ CalledOf("excludes") = IF SomeTrue(para.includes) THEN UpToFirstTrue(para.excludes)
                               ELSE <<>>
    /\ exe.called = Called("includes", CalledOf("includes"))
                       \o Called("excludes", CalledOf("excludes"))
    /\ \A i, j \in DOMAIN exe.called : i # j => exe.called[i] # exe.called[j]

\* the first include and the second exclude were true: the other includes
\* and the third exclude were not called
C26_Witness ==
  /\ Evaluated
  /\ para.includes = <<TRUE, FALSE, TRUE>>
  /\ para.excludes = <<FALSE, TRUE, TRUE>>
  /\ exe.called = << <<"includes", 1>>, <<"excludes", 1>>, <<"excludes", 2>> >>


\* ------------------------------------------------------------------------
\* rspub.core.config: the singleton Configuration and the named
\* configurations.  A file name is the sequence of its dot-separated parts;
\* para holds the class attributes of Configuration, exe the instances
\* created so far (each with the attribute config_file it owns, if any),
\* pre the files of the configuration directory, last the name each
\* instance reported when it stopped being the current one.
\* ------------------------------------------------------------------------
MaxInstances == 4

EXT == "cfg"

CFG_FILENAME == <<"DEFAULT", EXT>>

\* an attribute that is not set on the object
NoAttribute == <<>>

\* the names given to save_configuration_as and load_configuration
ConfigNames == {<<>>, <<"DEFAULT">>, <<"a">>, <<"b">>, <<"a", EXT>>}

\* os.path.splitext(path)[0]
splitext(path) == IF Len(path) > 1 THEN SubSeq(path, 1, Len(path) - 1) ELSE path

\* Configuration._get_configuration_filename()
get_configuration_filename(cls) ==
  IF cls.configuration_filename = NoAttribute THEN CFG_FILENAME
  ELSE cls.configuration_filename

\* Configurations.list_configurations()
list_configurations(files) == {splitext(f) : f \in files}

\* variant with a fault: the attribute of the instance is ignored
config_file_ofClass(cls, instances, i) == cls.config_file

\* self.config_file: the attribute of the instance, else that of the class
config_file_of(cls, instances, i) ==
  IF instances[i].config_file # NoAttribute THEN instances[i].config_file
  ELSE cls.config_file

\* Configuration.name() of instance i
configuration_name(cls, instances, i) == splitext(config_file_of(cls, instances, i))

\* Configuration.__new__: the class attributes and the instances afterwards
new(cls, instances) ==
  IF cls.instance # 0 THEN [cls |-> cls, instances |-> instances]
  ELSE [cls |-> [cls EXCEPT !.instance = Len(instances) + 1,
                            !.configuration_filename = get_configuration_filename(cls),
                            !.config_file = get_configuration_filename(cls)],
        instances |-> Append(instances, [config_file |-> NoAttribute])]

\* Configuration.reset()
reset(cls) == [cls EXCEPT !.instance = 0]

\* the names kept, once the current instance of cls stops being current
Retired(cls, instances, kept) ==
  IF cls.instance = 0 THEN kept
  ELSE [kept EXCEPT ![cls.instance] = configuration_name(cls, instances, cls.instance)]

\* the names kept, with room for the instances created since
Kept(kept, instances) ==
  [i \in DOMAIN instances |-> IF i \in DOMAIN kept THEN kept[i] ELSE NoAttribute]

\* Configuration() can be called: an instance exists or one more may be made
CanCreate == para.instance # 0 \/ Len(exe) < MaxInstances

ConfigInit ==
  /\ resourcelists = EmptyFiles
  /\ changelists = EmptyFiles
  /\ indexes = EmptyFiles
  /\ capabilitylist = NoDoc
  /\ description = NoDoc
  /\ para = [instance |-> 0, configuration_filename |-> CFG_FILENAME,
             config_file |-> NoAttribute]
  /\ exe = <<>>
  /\ pc = "idle"
  /\ outcome = "none"
  /\ clock = 0
  /\ runs = 0
  /\ pre \in {{}, {CFG_FILENAME}}
  /\ last = <<>>

\* Configuration()
NewConfiguration ==
  /\ CanCreate
  /\ LET n == new(para, exe)
     IN /\ para' = n.cls
        /\ exe' = n.instances
        /\ last' = Kept(last, n.instances)
  /\ outcome' = "Configuration"
  /\ UNCHANGED <<store, pc, clock, runs, pre>>

\* Configuration.reset()
ResetConfiguration ==
  /\ para' = reset(para)
  /\ last' = Retired(para, exe, last)
  /\ outcome' = "reset"
  /\ UNCHANGED <<store, exe, pc, clock, runs, pre>>

\* Configurations.save_configuration_as(name)
save_configuration_as(name) ==
  IF name = <<>>
  THEN /\ outcome' = "ValueError"
       /\ UNCHANGED <<store, para, exe, pc, clock, runs, pre, last>>
  ELSE /\ CanCreate
       /\ LET config_file == Append(splitext(name), EXT)
              n == new(para, exe)
          IN /\ para' = n.cls
             /\ exe' = [n.instances EXCEPT ![n.cls.instance].config_file = config_file]
             /\ pre' = pre \cup {config_file}
             /\ last' = Kept(last, n.instances)
       /\ outcome' = "save_configuration_as"
       /\ UNCHANGED <<store, pc, clock, runs>>

\* Configurations.load_configuration(name)
load_configuration(name) ==
  IF name \notin list_configurations(pre)
  THEN /\ outcome' = "ValueError"
       /\ UNCHANGED <<store, para, exe, pc, clock, runs, pre, last>>
  ELSE /\ Len(exe) < MaxInstances
       /\ LET n == new([reset(para) EXCEPT !.configuration_filename = Append(name, EXT)], exe)
          IN /\ para' = n.cls
             /\ exe' = n.instances
             /\ last' = Kept(Retired(para, exe, last), n.instances)
       /\ outcome' = "load_configuration"
       /\ UNCHANGED <<store, pc, clock, runs, pre>>

ConfigNext ==
  \/ NewConfiguration
  \/ ResetConfiguration
  \/ \E n \in ConfigNames : save_configuration_as(n)
  \/ \E n \in ConfigNames : load_configuration(n)

ConfigSpec == ConfigInit /\ [][ConfigNext]_vars

\* ------------------------------------------------------------------------
\* C27
\* ------------------------------------------------------------------------
\* the instances that stopped being the current one
Former == {i \in DOMAIN exe : i # para.instance}

\* C27 as stated: every instance that stopped being the current one keeps
\* reporting, through name(), the name it had at that moment
C27_FormerKeepName ==
  \A i \in Former : configuration_name(para, exe, i) = last[i]

\* C27, the part that holds: an instance that was saved under a name while
\* it was the current one keeps reporting the name it had when it stopped
\* being the current one
C27_SavedFormerKeepName ==
  \A i \in Former : exe[i].config_file # NoAttribute => configuration_name(para, exe, i) = last[i]

\* a saved former instance, after a configuration of another name was loaded
C27_Witness ==
  /\ outcome = "load_configuration"
  /\ \E i \in Former : /\ exe[i].config_file # NoAttribute
                       /\ exe[i].config_file # para.config_file


\* ------------------------------------------------------------------------
\* C28
\* ------------------------------------------------------------------------
\* md:from and md:until are both set
BothSet(d) == d.md_from # None /\ d.md_until # None

\* C28: every changelist of the metadata dir, and every entry of the
\* changelist index, that has both md:from and md:until has
\* md:from <= md:until.
C28_FromBeforeUntil ==
  /\ \A n \in DOMAIN changelists :
       BothSet(changelists[n]) => changelists[n].md_from <= changelists[n].md_until
  /\ "changelist" \in DOMAIN indexes =>
       \A i \in DOMAIN indexes["changelist"].resources :
         LET entry == indexes["changelist"].resources[i]
         IN BothSet(entry) => entry.md_from <= entry.md_until

\* a closed changelist that began at the start of its run, not at the
\* completion of the resourcelist, and is listed closed in the index
C28_Witness ==
  /\ AfterRun
  /\ \E n \in DOMAIN changelists, m \in DOMAIN changelists :
       /\ BothSet(changelists[n])
       /\ changelists[m].md_from < changelists[n].md_from
  /\ "changelist" \in DOMAIN indexes
  /\ \E i \in DOMAIN indexes["changelist"].resources :
       BothSet(indexes["changelist"].resources[i])


\* ------------------------------------------------------------------------
\* C29
\* ------------------------------------------------------------------------
\* a run of the new-changelist executor that saved its documents has ended
SavingNewChangelistRun ==
  AfterRun /\ exe.executor = "new_changelist" /\ para.is_saving_sitemaps

\* the names of the changelists the run emitted
Emitted == {exe.sitemap_data_iter[i].name : i \in DOMAIN exe.sitemap_data_iter}

\* the changelists that were open when the run began
OpenBefore == {n \in DOMAIN pre.changelists : pre.changelists[n].md_until = None}

\* the changelists open before the run are closed at its start time, and
\* the ones it emitted are open
ClosedOlderOpenOwn ==
  /\ \A n \in OpenBefore :
       n \in DOMAIN changelists /\ changelists[n].md_until = exe.date_start_processing
  /\ \A n \in Emitted :
       n \in DOMAIN changelists /\ changelists[n].md_until = None

\* the changelists open before the run are closed at its start time; the
\* ones it emitted are open, but for one written over a file that was there
\* before the run, which is closed with the older ones
ClosedOlderOpenNew ==
  /\ \A n \in OpenBefore :
       n \in DOMAIN changelists /\ changelists[n].md_until = exe.date_start_processing
  /\ \A n \in Emitted :
       /\ n \in DOMAIN changelists
       /\ changelists[n].md_until =
            IF n \in DOMAIN pre.changelists THEN exe.date_start_processing ELSE None

RECURSIVE EntriesFrom(_)
\* the entries of the documents from the i-th yielded on, in the order read
EntriesFrom(i) ==
  IF i > Len(exe.yielded) THEN <<>>
  ELSE exe.yielded[i].sitemap.resources \o EntriesFrom(i + 1)

\* the documents were yielded in the order of their ordinals
InOrdinalOrder ==
  \A i \in DOMAIN exe.yielded, j \in DOMAIN exe.yielded :
    i < j => exe.yielded[i].ordinal < exe.yielded[j].ordinal

\* the entries the run added, without those a resumed document already held
RunEntries ==
  LET all == EntriesFrom(1)
  IN SubSeq(all, (IF Resuming THEN LoadedSize ELSE 0) + 1, Len(all))

\* the place of a group in the order created, updated, deleted
GroupRank(change) ==
  IF change = "created" THEN 1 ELSE IF change = "updated" THEN 2 ELSE 3

\* the place of the resource of an entry in its source: the resources found
\* on disk for created and updated, the previous resources for deleted
SourcePlace(entry) ==
  LET source == IF entry.change = "deleted" THEN exe.previous_resources ELSE para.filenames
  IN CHOOSE k \in DOMAIN source : source[k].uri = entry.uri

\* C30: the entries a run added to its changelists, read in the order of the
\* ordinals, come in the groups created, updated, deleted, and within a
\* group in the order of the source.
C30_GroupOrder ==
  (pc = "post" /\ exe.executor \in ChangelistExecutors) =>
    /\ InOrdinalOrder
    /\ \A i \in DOMAIN RunEntries, j \in DOMAIN RunEntries :
         i < j =>
           \/ GroupRank(RunEntries[i].change) < GroupRank(RunEntries[j].change)
           \/ /\ RunEntries[i].change = RunEntries[j].change
              /\ SourcePlace(RunEntries[i]) < SourcePlace(RunEntries[j])

\* a run that resumed a changelist and added a created or updated entry to it
\* and a deleted entry to the next document
C30_Witness ==
  /\ pc = "post" /\ exe.executor \in ChangelistExecutors
  /\ Resuming
  /\ Len(exe.yielded) = 2
  /\ Len(RunEntries) = 2
  /\ RunEntries[1].change # "deleted"
  /\ RunEntries[2].change = "deleted"


\* ------------------------------------------------------------------------
\* C31
\* ------------------------------------------------------------------------
\* the uris of the group of exe.changes that goes by the name change
GroupUris(change) ==
  IF change = "created" THEN UrisOf(exe.changes.created)
  ELSE IF change = "updated" THEN UrisOf(exe.changes.updated)
  ELSE IF change = "deleted" THEN UrisOf(exe.changes.deleted)
  ELSE {}

\* the entries a resumed document held before the run, as the run yields them
HeldEntries ==
  IF Resuming /\ exe.yielded # <<>>
  THEN SubSeq(exe.yielded[1].sitemap.resources, 1, LoadedSize)
  ELSE <<>>

\* C31: every entry a run adds to a changelist carries the name of the group
\* it was classified into as its change and the start time of the run as its
\* datetime; the entries a resumed changelist already held are yielded as
\* they were.
C31_Stamped ==
  (pc = "post" /\ exe.executor \in ChangelistExecutors) =>
    /\ \A k \in DOMAIN RunEntries :
         /\ RunEntries[k].uri \in GroupUris(RunEntries[k].change)
         /\ RunEntries[k].md_datetime = exe.date_start_processing
    /\ (Resuming /\ exe.yielded # <<>>) => HeldEntries = exe.changelist.resources

\* a run that added an entry to a resumed changelist begun at another time,
\* whose older entry has the datetime of an earlier run
C31_Witness ==
  /\ pc = "post" /\ exe.executor \in ChangelistExecutors
  /\ Resuming
  /\ RunEntries # <<>>
  /\ exe.date_changelist_from # exe.date_start_processing
  /\ \E k \in DOMAIN HeldEntries : HeldEntries[k].md_datetime < exe.date_start_processing


\* ------------------------------------------------------------------------
\* C32
\* ------------------------------------------------------------------------
\* the places of the events of one kind among the events of the run
PlacesOf(event) == {k \in DOMAIN exe.events : exe.events[k].event = event}

\* the sizes of the four sets, from the previous state and the live resources
CountsOfRun ==
  LET prev == exe.previous_resources
      live == para.filenames
      same(u) == Lookup(prev, u).md5 = Lookup(live, u).md5
  IN << Cardinality(UrisOf(live) \ UrisOf(prev)),
        Cardinality({u \in UrisOf(live) \cap UrisOf(prev) : ~same(u)}),
        Cardinality(UrisOf(prev) \ UrisOf(live)),
        Cardinality({u \in UrisOf(live) \cap UrisOf(prev) : same(u)}) >>

\* a changelist run has generated its documents
GeneratedChangelists ==
  exe.executor \in ChangelistExecutors /\ pc \notin {"prepare", "generate"}
    /\ outcome \in {"running", "completed"}

\* C32: a changelist run sends found_changes once, with the sizes of the
\* created, updated, deleted and unchanged sets, after the created_resource
\* event of every live resource and before every completed_document event of
\* the run; before its documents are generated a run has sent none.
C32_FoundChangesOnce ==
  /\ Cardinality(PlacesOf("found_changes")) <= 1
  /\ GeneratedChangelists =>
       /\ Cardinality(PlacesOf("found_changes")) = 1
       /\ Cardinality(PlacesOf("created_resource")) = Len(para.filenames)
       /\ \A f \in PlacesOf("found_changes") :
            /\ exe.events[f].kwargs = CountsOfRun
            /\ \A k \in PlacesOf("created_resource") : k < f
            /\ \A k \in PlacesOf("completed_document") : f < k

\* a run whose found_changes reports two sets or more that are not empty, and
\* that completed a document
C32_Witness ==
  /\ GeneratedChangelists
  /\ PlacesOf("completed_document") # {}
  /\ PlacesOf("created_resource") # {}
  /\ \E f \in PlacesOf("found_changes") :
       Cardinality({i \in 1..4 : exe.events[f].kwargs[i] > 0}) >= 2


\* ------------------------------------------------------------------------
\* Links to the changelist index under a changing url_prefix: saving runs
\* of any strategy over a single file, one resource per page
\* ------------------------------------------------------------------------
MaxLinkRuns == 5

LinkNext ==
  \/ \E strategy \in Strategy, url_prefix \in 1..NumPrefixes, files \in OneFile :
       runs < MaxLinkRuns
       /\ Execute(strategy, FALSE, TRUE, 1, url_prefix, files)
  \/ \E ok \in BOOLEAN : PrepareMetadataDir(ok)
  \/ GenerateResourcelists
  \/ GenerateChangelists
  \/ PostProcessDocuments
  \/ CreateChangelistIndex
  \/ CreateResourcelistIndex
  \/ CreateCapabilitylist
  \/ UpdateResourceSync

LinkSpec == Init /\ [][LinkNext]_vars

\* ------------------------------------------------------------------------
\* C33
\* ------------------------------------------------------------------------
\* a saving changelist run that built the changelist index has ended
BuiltChangelistIndex ==
  /\ AfterRun /\ exe.executor \in ChangelistExecutors /\ para.is_saving_sitemaps
  /\ Cardinality(DOMAIN changelists) > 1

\* the changelists of before the run that are still there
KeptChangelists == DOMAIN pre.changelists \cap DOMAIN changelists

WroteChangelistIndex == BuiltChangelistIndex /\ "changelist" \in DOMAIN indexes

\* the entries of the changelist index for the changelist named n
EntriesFor(n) ==
  {i \in DOMAIN indexes["changelist"].resources :
     indexes["changelist"].resources[i].uri = uri_from_path(para.url_prefix, "changelist", n)}

\* C34: the changelist index a saving run wrote has one entry for every
\* changelist of the metadata dir and no other, each with the md:from and
\* md:until the changelist has when the run ends, and the md:from of the index
\* is the completion time of the resourcelist.
C34_IndexMirrorsPages ==
  WroteChangelistIndex =>
    /\ indexes["changelist"].sitemapindex
    /\ Len(indexes["changelist"].resources) = Cardinality(DOMAIN changelists)
    /\ \A n \in DOMAIN changelists :
         /\ Cardinality(EntriesFor(n)) = 1
         /\ \A i \in EntriesFor(n) :
              /\ indexes["changelist"].resources[i].md_from = changelists[n].md_from
              /\ indexes["changelist"].resources[i].md_until = changelists[n].md_until
    /\ indexes["changelist"].md_from = BaselineCompletedAt

\* an index with the entry of a changelist the same run closed and the entry
\* of one it left open
C34_Witness ==
  /\ WroteChangelistIndex
  /\ \E n \in DOMAIN pre.changelists \cap DOMAIN changelists :
       /\ pre.changelists[n].md_until = None
       /\ changelists[n].md_until = exe.date_start_processing
  /\ \E n \in DOMAIN changelists : changelists[n].md_until = None


\* ------------------------------------------------------------------------
\* Replaying a metadata dir: ChangelistExecutor.update_previous_state and
\* ResourceAuditor.all_resources applied to any metadata dir of up to
\* MaxReplayLists resourcelists and MaxReplayPages changelists, one resource
\* each.  exe holds what the two return.
\* ------------------------------------------------------------------------
MaxReplayLists == 2

MaxReplayPages == 3

\* the sequences of up to n elements of S
SeqsUpTo(S, n) == UNION {[1..k -> S] : k \in 0..n}

\* the files of one capability holding the documents docs, in this order
PagesFrom(docs) ==
  [n \in {format_ordinal(i - 1, ZFILL_DOC_COUNT) : i \in DOMAIN docs} |-> docs[ToInt(n) + 1]]

\* resourcelists of one resource, completed or not
StoredResourcelists ==
  {[NewResourceList EXCEPT !.resources = <<Resource(u, h, 0)>>, !.md_at = 1, !.md_completed = c] :
     u \in Uris, h \in Hashes, c \in {None, 2}}

\* changelists of one entry
StoredChangelists ==
  {[NewChangeList EXCEPT !.resources = <<[Resource(u, h, 0) EXCEPT !.change = c]>>, !.md_from = 1] :
     u \in Uris, h \in Hashes, c \in {"created", "updated", "deleted"}}

\* variant with a fault: the auditor does not replay the deleted entries
AuditChangeKeepsDeleted(acc, resource) ==
  IF resource.change = "created" \/ resource.change = "updated"
  THEN Upsert(acc, resource)
  ELSE acc

\* ResourceAuditor.all_resources: one entry of a changelist
AuditChange(acc, resource) ==
  IF resource.change = "created" \/ resource.change = "updated"
  THEN Upsert(acc, resource)
  ELSE IF resource.change = "deleted" /\ resource.uri \in UrisOf(acc)
  THEN Remove(acc, resource.uri)
  ELSE acc

RECURSIVE AuditEntries(_, _)
\* ResourceAuditor.all_resources: the loop over the entries of a changelist
AuditEntries(acc, resources) ==
  IF resources = <<>> THEN acc
  ELSE AuditEntries(AuditChange(acc, Head(resources)), Tail(resources))

RECURSIVE AuditChangelists(_, _, _)
\* ResourceAuditor.all_resources: the loop over changelist_files
AuditChangelists(acc, cls, names) ==
  IF names = <<>> THEN acc
  ELSE AuditChangelists(AuditEntries(acc, cls[Head(names)].resources), cls, Tail(names))

RECURSIVE AuditResourcelists(_, _, _)
\* ResourceAuditor.all_resources: the loop over resourcelist_files
AuditResourcelists(acc, rls, names) ==
  IF names = <<>> THEN acc
  ELSE AuditResourcelists(UpdateAll(acc, rls[Head(names)].resources), rls, Tail(names))

\* ResourceAuditor.all_resources
all_resources(rls, cls) ==
  AuditChangelists(AuditResourcelists(<<>>, rls, SortedNames(DOMAIN rls)),
                   cls, SortedNames(DOMAIN cls))

ReplayInit ==
  /\ resourcelists \in {PagesFrom(docs) : docs \in SeqsUpTo(StoredResourcelists, MaxReplayLists)}
  /\ changelists \in {PagesFrom(docs) : docs \in SeqsUpTo(StoredChangelists, MaxReplayPages)}
  /\ indexes = EmptyFiles
  /\ capabilitylist = NoDoc
  /\ description = NoDoc
  /\ para = InitPara(ZFILL_DOC_COUNT)
  /\ exe = [state |-> update_previous_state(EmptyFiles, EmptyFiles), all_resources |-> <<>>]
  /\ pc = "idle"
  /\ outcome = "none"
  /\ clock = 0
  /\ runs = 0
  /\ pre = Snapshot
  /\ last = NoRun

\* executor.update_previous_state() and auditor.all_resources() on the
\* metadata dir
Replay ==
  /\ outcome = "none"
  /\ exe' = [state |-> update_previous_state(resourcelists, changelists),
             all_resources |-> all_resources(resourcelists, changelists)]
  /\ outcome' = "replayed"
  /\ UNCHANGED <<store, para, pc, clock, runs, pre, last>>

ReplayNext == Replay

ReplaySpec == ReplayInit /\ [][ReplayNext]_vars

\* ------------------------------------------------------------------------
\* C35
\* ------------------------------------------------------------------------
\* the entries of all changelists, in the order of the sorted file names
ReplayedEntries == Concat(changelists, SortedNames(DOMAIN changelists))

\* the last entry about uri u among the entries of all changelists
LastEntry(u) ==
  LET places == {k \in DOMAIN ReplayedEntries : ReplayedEntries[k].uri = u}
  IN ReplayedEntries[CHOOSE k \in places : \A l \in places : l <= k]

\* the metadata dir has been replayed and holds no resourcelist
ReplayedWithoutResourcelist == outcome = "replayed" /\ DOMAIN resourcelists = {}

SavingChangelistRun ==
  AfterRun /\ exe.executor \in ChangelistExecutors /\ para.is_saving_sitemaps

\* C36: after a saving run of a changelist executor, update_previous_state
\* on the metadata dir gives the live resources of the run: the same uris,
\* each with the md5 of the live resource.
C36_Converges ==
  SavingChangelistRun =>
    Content(update_previous_state(resourcelists, changelists).previous_resources)
      = Content(para.filenames)

\* C36 while every page name has the width of the padding: after a saving
\* run of a changelist executor, update_previous_state on the metadata dir
\* gives the live resources of the run.
C36_ConvergesWithinWidth ==
  (SavingChangelistRun /\ WithinWidth(changelists)) =>
    Content(update_previous_state(resourcelists, changelists).previous_resources)
      = Content(para.filenames)

\* a saving changelist run after which the metadata dir holds a deleted entry
\* and the live resources differ from those of the resourcelist
C36_Witness ==
  /\ SavingChangelistRun
  /\ Content(para.filenames) # Content(Concat(resourcelists, SortedNames(DOMAIN resourcelists)))
  /\ \E n \in DOMAIN changelists :
       \E k \in DOMAIN changelists[n].resources : changelists[n].resources[k].change = "deleted"


\* ------------------------------------------------------------------------
\* C37
\* ------------------------------------------------------------------------
\* the places among the entries of the run of the resource r of the group change
PlacesOfChange(change, r) ==
  {k \in DOMAIN RunEntries : RunEntries[k].uri = r.uri /\ RunEntries[k].change = change}

\* every resource of the group is once among the entries of the run
GroupOnce(change, group) ==
  \A i \in DOMAIN group : Cardinality(PlacesOfChange(change, group[i])) = 1

\* C37: the entries a run adds to the documents it yields are the created,
\* updated and deleted resources, each once: their number is the sum of the
\* sizes of the three groups.
C37_NothingLostOrDoubled ==
  (pc = "post" /\ exe.executor \in ChangelistExecutors) =>
    /\ Len(RunEntries) = Len(exe.changes.created) + Len(exe.changes.updated)
                           + Len(exe.changes.deleted)
    /\ GroupOnce("created", exe.changes.created)
    /\ GroupOnce("updated", exe.changes.updated)
    /\ GroupOnce("deleted", exe.changes.deleted)

\* a run whose two changes went to two documents, the first of them resumed
C37_Witness ==
  /\ pc = "post" /\ exe.executor \in ChangelistExecutors
  /\ Resuming
  /\ Len(RunEntries) = 2
  /\ Len(exe.yielded) = 2


\* ------------------------------------------------------------------------
\* Resuming a changelist when the ordinals have outgrown the padding: zero
\* fill 1, saving runs over a single file that is there in one run and gone
\* in the next until changelist_10 is there, and has any content after.  The
\* new-changelist strategy, one resource per page, runs until changelist_10
\* is there; the incremental one runs while there are no more than
\* MaxResumablePages changelists and once changelist_10 is there
\* ------------------------------------------------------------------------
MaxResumeRuns == 13

MaxResumablePages == 2

\* changelist_10 is in the metadata dir
Outgrown == format_ordinal(10, MIN_ZERO_FILL) \in DOMAIN changelists

\* the single file: with its first content or absent, and with any content
\* once changelist_10 is there
ThereOrGone == {f \in OneFile : Outgrown \/ f[1] \in {Absent, 1}}

\* the strategy may run on the metadata dir with that many items in a list
MayResume(strategy, max_items_in_list) ==
  IF strategy = "new_changelist" THEN ~Outgrown /\ max_items_in_list = 1
  ELSE Outgrown \/ Cardinality(DOMAIN changelists) \in 1..MaxResumablePages

ResumeNext ==
  \/ \E strategy \in ChangelistExecutors, max_items_in_list \in 1..MaxItemsBound,
        files \in ThereOrGone :
       /\ runs < MaxResumeRuns
       /\ MayResume(strategy, max_items_in_list)
       /\ Content(resource_generator(files, clock + 1)) # Content(para.filenames)
       /\ Execute(strategy, FALSE, TRUE, max_items_in_list, 1, files)
  \/ \E ok \in BOOLEAN : PrepareMetadataDir(ok)
  \/ GenerateResourcelists
  \/ GenerateChangelists
  \/ PostProcessDocuments
  \/ CreateChangelistIndex
  \/ CreateResourcelistIndex
  \/ CreateCapabilitylist
  \/ UpdateResourceSync

ResumeSpec == WidthInit /\ [][ResumeNext]_vars

\* ------------------------------------------------------------------------
\* C38
\* ------------------------------------------------------------------------
\* a saving run of the incremental executor has ended
SavingIncrementalRun ==
  AfterRun /\ exe.executor = "inc_changelist" /\ para.is_saving_sitemaps

\* the run went on with the changelist it loaded and yielded it
Resumed == Resuming /\ exe.yielded # <<>>

\* the name of the changelist the incremental executor loaded
LoadedName == exe.changelist_files[Len(exe.changelist_files)]

\* the changelist the run resumed holds what it held, followed by the entries
\* of the run, and begins when it began
ResumedAppended ==
  Resumed =>
    /\ LoadedName \in DOMAIN changelists
    /\ IsPrefix(pre.changelists[LoadedName].resources, changelists[LoadedName].resources)
    /\ changelists[LoadedName].md_from = pre.changelists[LoadedName].md_from

\* the other changelists, and the resourcelists, hold what they held
OthersUntouched ==
  /\ \A n \in DOMAIN pre.changelists :
       ~(Resumed /\ n = LoadedName) =>
         /\ n \in DOMAIN changelists
         /\ changelists[n].resources = pre.changelists[n].resources
  /\ \A n \in DOMAIN pre.resourcelists :
       /\ n \in DOMAIN resourcelists
       /\ resourcelists[n].resources = pre.resourcelists[n].resources

\* C38 as stated: a saving run of the incremental executor keeps the entries
\* of the changelist it resumes as the first entries of the rewritten
\* document, keeps its md:from, and changes the entries of no other
\* changelist and of no resourcelist.
C38_AppendOnly ==
  SavingIncrementalRun => (ResumedAppended /\ OthersUntouched)

\* C38 while every page name has the width of the padding
C38_AppendOnlyWithinWidth ==
  (SavingIncrementalRun /\ WithinWidth(pre.changelists)) =>
    (ResumedAppended /\ OthersUntouched)

\* a saving incremental run that added an entry to the changelist it
\* resumed, while every page name has the width of the padding
C38_Witness ==
  /\ SavingIncrementalRun
  /\ WithinWidth(pre.changelists)
  /\ Resumed
  /\ Len(changelists[LoadedName].resources) > Len(pre.changelists[LoadedName].resources)


\* ------------------------------------------------------------------------
\* C39
\* ------------------------------------------------------------------------
\* the changelist with the greatest ordinal
HighestChangelist ==
  CHOOSE n \in DOMAIN changelists : \A m \in DOMAIN changelists : ToInt(m) <= ToInt(n)

\* C39 as stated: between runs the changelist with the greatest ordinal is
\* open, and the changelist a run of the incremental executor went on with
\* was open when the run began.
C39_LastIsOpen ==
  /\ (pc = "idle" /\ DOMAIN changelists # {}) =>
       changelists[HighestChangelist].md_until = None
  /\ (SavingIncrementalRun /\ Resumed) => pre.changelists[LoadedName].md_until = None

\* C39 while every page name has the width of the padding
C39_LastIsOpenWithinWidth ==
  /\ (pc = "idle" /\ DOMAIN changelists # {} /\ WithinWidth(changelists)) =>
       changelists[HighestChangelist].md_until = None
  /\ (SavingIncrementalRun /\ Resumed /\ WithinWidth(pre.changelists)) =>
       pre.changelists[LoadedName].md_until = None

\* an incremental run that went on with an open changelist, next to a closed
\* one
C39_Witness ==
  /\ SavingIncrementalRun /\ Resumed
  /\ WithinWidth(pre.changelists)
  /\ \E n \in DOMAIN pre.changelists : pre.changelists[n].md_until # None


\* ------------------------------------------------------------------------
\* C40
\* ------------------------------------------------------------------------
\* C40: for every metadata dir ResourceAuditor.all_resources gives the map
\* of uri to resource that ChangelistExecutor.update_previous_state leaves in
\* previous_resources: the same resources under the same uris, in the same
\* order of insertion
C40_SameMap ==
  outcome = "replayed" => exe.all_resources = exe.state.previous_resources

\* a metadata dir with a resourcelist and changelists that delete one of its
\* resources and leave another resource
C40_Witness ==
  /\ outcome = "replayed"
  /\ DOMAIN resourcelists # {}
  /\ exe.all_resources # <<>>
  /\ \E n \in DOMAIN resourcelists :
       \E i \in DOMAIN resourcelists[n].resources :
         /\ resourcelists[n].resources[i].uri \notin UrisOf(exe.all_resources)
         /\ \E k \in DOMAIN ReplayedEntries :
              /\ ReplayedEntries[k].uri = resourcelists[n].resources[i].uri
              /\ ReplayedEntries[k].change = "deleted"

====
